---- MODULE Spec2Model ----
(***************************************************************************)
(* Issue state-duration analysis of ai_impact_analysis.                    *)
(*                                                                         *)
(* calculate_state_durations (utils.py) is a function of one Jira issue    *)
(* and of the system clock it reads for open issues.  It is written here   *)
(* as an operator over issue records; the actions apply it to issues drawn *)
(* from bounded sets, once per invocation (Spec) or once per iteration of  *)
(* the aggregation loop of get_jira_metrics.py (SpecBatch).                *)
(*                                                                         *)
(* Time: an instant is a whole number of seconds since                     *)
(* 2024-01-01T00:00:00Z.  A timestamp string is the record                 *)
(* [form, day]: form says which pattern the text has, day is the calendar  *)
(* day it names (midnight UTC).                                            *)
(***************************************************************************)
EXTENDS Integers, Sequences, FiniteSets, TLC

\* ----------------------------------------------------------------- bounds
\* Latest calendar day named by a timestamp of a generated issue.
MaxDay == 2
\* Longest changelog (number of history entries) of a generated issue.
MaxHist == 2
\* Latest day the system clock reaches.
MaxClock == 4
\* Largest number of issues fetched into one batch.
MaxBatch == 3
\* Largest number of closed pull requests of the repository.
MaxPRs == 2
\* Largest number of commits of a pull request.
MaxCommits == 2
\* Largest number of reviews of a pull request.
MaxReviews == 2
\* Largest number of pull requests handed to the thread pool.
MaxAnalysed == 3
\* Largest number of configured phases.
MaxPhases == 2
\* Largest number of team members.
MaxMembers == 3
\* Largest number of repetitions of the rh-ee- prefix and of a numeric suffix
\* in a username.
MaxRepeat == 2

SecondsPerDay == 24 * 3600

Days == 0..MaxDay

\* ------------------------------------------------------- input vocabulary
\* Python's None as a status name (item.get("fromString") on a missing key).
None == "<None>"

\* Timestamp strings.  "absent" is a missing key or null, "empty" is "",
\* "frac" is %Y-%m-%dT%H:%M:%S.%f%z, "plain" is %Y-%m-%dT%H:%M:%S%z,
\* "garbage" is any other text.
Ts(form, day) == [form |-> form, day |-> day]
AbsentTs == Ts("absent", 0)
EmptyTs == Ts("empty", 0)
GarbageTs == Ts("garbage", 0)
Plain(day) == Ts("plain", day)
Frac(day) == Ts("frac", day)

Item(field, from, to) == [field |-> field, fromString |-> from, toString |-> to]
StatusItem(from, to) == Item("status", from, to)
OtherItem == Item("summary", "old text", "new text")

History(created, items) == [created |-> created, items |-> items]

\* An issue: fields.created, fields.resolutiondate, fields.status.name
\* ("<absent>" when the status key is missing) and changelog.histories.
AbsentStatus == "<absent>"
Issue(created, resolutiondate, status, histories) ==
    [created |-> created, resolutiondate |-> resolutiondate,
     status |-> status, histories |-> histories]

\* ------------------------------------------------------------ the program
NoneDate == [ok |-> FALSE, secs |-> 0]
Date(secs) == [ok |-> TRUE, secs |-> secs]

\* `not s` for a timestamp string: None or "".
NotStr(s) == s.form \in {"absent", "empty"}

\* datetime.strptime(text, format): the instant, or ValueError (NoneDate)
\* when the text does not match the format.
FracFormat == "frac"
PlainFormat == "plain"
strptime(text, format) ==
    IF text.form = format THEN Date(text.day * SecondsPerDay) ELSE NoneDate

\* Faulty variant: any non-empty text is taken for a timestamp.
parse_datetime_accepting_any_text(datetime_str) ==
    IF NotStr(datetime_str) THEN NoneDate
    ELSE Date(datetime_str.day * SecondsPerDay)

\* parse_datetime: None for None or "", else the first format that matches,
\* else None.
parse_datetime(datetime_str) ==
    IF NotStr(datetime_str) THEN NoneDate
    ELSE IF strptime(datetime_str, FracFormat).ok
         THEN strptime(datetime_str, FracFormat)
    ELSE IF strptime(datetime_str, PlainFormat).ok
         THEN strptime(datetime_str, PlainFormat)
    ELSE NoneDate

\* Truthiness of a status name: None and "" are falsy.
Truthy(status) == status # None /\ status # ""

ZeroStats == [total_seconds |-> 0, count |-> 0]
EmptyStats == [s \in {} |-> ZeroStats]

\* Faulty variant: a status is counted at its first entry only.
EnterStateOnce(state_stats, state) ==
    IF state \in DOMAIN state_stats
    THEN state_stats
    ELSE state_stats @@ (state :> [total_seconds |-> 0, count |-> 1])

\* Faulty variant: the entry that creates the key is not counted.
EnterStateCountingReentries(state_stats, state) ==
    IF state \in DOMAIN state_stats
    THEN [state_stats EXCEPT ![state].count = @ + 1]
    ELSE state_stats @@ (state :> ZeroStats)

\* if state not in state_stats: state_stats[state] = {0, 0}
\* state_stats[state]["count"] += 1
EnterState(state_stats, state) ==
    LET present == IF state \in DOMAIN state_stats
                   THEN state_stats
                   ELSE state_stats @@ (state :> ZeroStats)
    IN  [present EXCEPT ![state].count = @ + 1]

\* state_stats[state]["total_seconds"] += duration
AddDuration(state_stats, state, duration) ==
    [state_stats EXCEPT ![state].total_seconds = @ + duration]

\* The inner loop over history["items"]: one transition per status item.
RECURSIVE StatusItemsOf(_, _)
StatusItemsOf(items, transition_date) ==
    IF items = <<>> THEN <<>>
    ELSE LET item == Head(items)
             rest == StatusItemsOf(Tail(items), transition_date)
         IN  IF item.field = "status"
             THEN <<[date |-> transition_date, from |-> item.fromString,
                     to |-> item.toString]>> \o rest
             ELSE rest

\* Faulty variant: an entry without a parsable timestamp is kept, dated at
\* the epoch.
RECURSIVE BuildTransitionsKeepingUnparsable(_)
BuildTransitionsKeepingUnparsable(histories) ==
    IF histories = <<>> THEN <<>>
    ELSE LET history == Head(histories)
             transition_date == parse_datetime(history.created)
         IN  StatusItemsOf(history.items, transition_date.secs)
                 \o BuildTransitionsKeepingUnparsable(Tail(histories))

\* The loop over histories: an entry without a parsable timestamp is skipped.
RECURSIVE BuildTransitions(_)
BuildTransitions(histories) ==
    IF histories = <<>> THEN <<>>
    ELSE LET history == Head(histories)
             transition_date == parse_datetime(history.created)
         IN  IF NotStr(history.created) \/ ~transition_date.ok
             THEN BuildTransitions(Tail(histories))
             ELSE StatusItemsOf(history.items, transition_date.secs)
                      \o BuildTransitions(Tail(histories))

\* list.sort(key=date): a stable sort, equal dates keep their input order.
\* Faulty variant: an unstable sort, which puts a transition before the
\* transitions of the same date that were listed before it.
RECURSIVE InsertBeforeEqualDates(_, _)
InsertBeforeEqualDates(x, sorted) ==
    IF sorted = <<>> THEN <<x>>
    ELSE IF x.date <= Head(sorted).date THEN <<x>> \o sorted
    ELSE <<Head(sorted)>> \o InsertBeforeEqualDates(x, Tail(sorted))

RECURSIVE InsertByDate(_, _)
InsertByDate(x, sorted) ==
    IF sorted = <<>> THEN <<x>>
    ELSE IF x.date < Head(sorted).date THEN <<x>> \o sorted
    ELSE <<Head(sorted)>> \o InsertByDate(x, Tail(sorted))

\* Faulty variant: the transitions are walked in the order listed.
Unsorted(transitions) == transitions

RECURSIVE SortByDate(_)
SortByDate(transitions) ==
    IF transitions = <<>> THEN <<>>
    ELSE InsertByDate(transitions[Len(transitions)],
                      SortByDate(SubSeq(transitions, 1, Len(transitions) - 1)))

CurrentStatus(issue) ==
    IF issue.status = AbsentStatus THEN "Unknown" ELSE issue.status

InitialStatus(issue, status_transitions) ==
    IF status_transitions # <<>> THEN status_transitions[1].from
    ELSE CurrentStatus(issue)

\* Faulty variant: the initial status gets its entry but is not counted.
InitFirstStateUncounted(current_state) ==
    IF Truthy(current_state)
    THEN (current_state :> ZeroStats)
    ELSE EmptyStats

\* "Initialize first state".
InitFirstState(current_state) ==
    IF Truthy(current_state)
    THEN EnterState(EmptyStats, current_state)
    ELSE EmptyStats

\* "Process all transitions": walk is the triple of locals
\* (state_stats, current_state, current_state_start).
RECURSIVE ProcessTransitions(_, _)
ProcessTransitions(status_transitions, walk) ==
    IF status_transitions = <<>> THEN walk
    ELSE LET transition == Head(status_transitions)
             credited ==
                 IF Truthy(walk.current_state)
                 THEN AddDuration(walk.state_stats, walk.current_state,
                                  transition.date - walk.current_state_start)
                 ELSE walk.state_stats
         IN  ProcessTransitions(
                 Tail(status_transitions),
                 [state_stats |-> EnterState(credited, transition.to),
                  current_state |-> transition.to,
                  current_state_start |-> transition.date])

\* Faulty variant: the last stay always ends at the clock reading.
EndDateIgnoringResolution(resolution_str, now) == now

\* "Calculate time for last state": now is what datetime.now() returns.
EndDate(resolution_str, now) ==
    IF ~NotStr(resolution_str)
    THEN IF parse_datetime(resolution_str).ok
         THEN parse_datetime(resolution_str).secs
         ELSE now
    ELSE now

LastState(walk, resolution_str, now) ==
    IF Truthy(walk.current_state)
    THEN AddDuration(walk.state_stats, walk.current_state,
                     EndDate(resolution_str, now) - walk.current_state_start)
    ELSE walk.state_stats

calculate_state_durations(issue, now) ==
    IF NotStr(issue.created) THEN EmptyStats
    ELSE IF ~parse_datetime(issue.created).ok THEN EmptyStats
    ELSE LET created_date == parse_datetime(issue.created).secs
             status_transitions == SortByDate(BuildTransitions(issue.histories))
             initial_status == InitialStatus(issue, status_transitions)
             walk == ProcessTransitions(
                         status_transitions,
                         [state_stats |-> InitFirstState(initial_status),
                          current_state |-> initial_status,
                          current_state_start |-> created_date])
         IN  LastState(walk, issue.resolutiondate, now)

\* The copy in cli/get_jira_metrics.py, which parses in place: the two
\* formats are tried in turn and the second ValueError decides.
ParseInPlace(text) ==
    IF strptime(text, FracFormat).ok THEN strptime(text, FracFormat)
    ELSE IF strptime(text, PlainFormat).ok THEN strptime(text, PlainFormat)
    ELSE NoneDate

RECURSIVE BuildTransitionsInPlace(_)
BuildTransitionsInPlace(histories) ==
    IF histories = <<>> THEN <<>>
    ELSE LET history == Head(histories)
             transition_date == ParseInPlace(history.created)
         IN  IF NotStr(history.created) \/ ~transition_date.ok
             THEN BuildTransitionsInPlace(Tail(histories))
             ELSE StatusItemsOf(history.items, transition_date.secs)
                      \o BuildTransitionsInPlace(Tail(histories))

EndDateInPlace(resolution_str, now) ==
    IF ~NotStr(resolution_str)
    THEN IF ParseInPlace(resolution_str).ok
         THEN ParseInPlace(resolution_str).secs
         ELSE now
    ELSE now

calculate_state_durations_cli(issue, now) ==
    IF NotStr(issue.created) THEN EmptyStats
    ELSE IF ~ParseInPlace(issue.created).ok THEN EmptyStats
    ELSE LET created_date == ParseInPlace(issue.created).secs
             status_transitions ==
                 SortByDate(BuildTransitionsInPlace(issue.histories))
             initial_status == InitialStatus(issue, status_transitions)
             walk == ProcessTransitions(
                         status_transitions,
                         [state_stats |-> InitFirstState(initial_status),
                          current_state |-> initial_status,
                          current_state_start |-> created_date])
         IN  IF Truthy(walk.current_state)
             THEN AddDuration(walk.state_stats, walk.current_state,
                              EndDateInPlace(issue.resolutiondate, now)
                                  - walk.current_state_start)
             ELSE walk.state_stats

\* Faulty variant: an unparsable resolution date ends the last state where it
\* started.
EndDateOfGetIssuesWithoutFallback(resolution_str, start, now) ==
    IF ~NotStr(resolution_str)
    THEN IF ParseInPlace(resolution_str).ok
         THEN ParseInPlace(resolution_str).secs
         ELSE start
    ELSE now

\* The copy in get_issues.py, which parses in place as the cli copy does.
\* start is current_state_start, whose tzinfo is all that datetime.now
\* takes from it.
EndDateOfGetIssues(resolution_str, start, now) ==
    IF ~NotStr(resolution_str)
    THEN IF ~strptime(resolution_str, FracFormat).ok
         THEN IF ~strptime(resolution_str, PlainFormat).ok
              THEN now
              ELSE strptime(resolution_str, PlainFormat).secs
         ELSE strptime(resolution_str, FracFormat).secs
    ELSE now

RECURSIVE StatusTransitionsOfGetIssues(_)
StatusTransitionsOfGetIssues(histories) ==
    IF histories = <<>> THEN <<>>
    ELSE LET history == Head(histories)
             rest == StatusTransitionsOfGetIssues(Tail(histories))
         IN  IF NotStr(history.created) THEN rest
             ELSE IF strptime(history.created, FracFormat).ok
             THEN StatusItemsOf(history.items,
                                strptime(history.created, FracFormat).secs)
                      \o rest
             ELSE IF strptime(history.created, PlainFormat).ok
             THEN StatusItemsOf(history.items,
                                strptime(history.created, PlainFormat).secs)
                      \o rest
             ELSE rest

calculate_state_durations_get_issues(issue, now) ==
    IF NotStr(issue.created) THEN EmptyStats
    ELSE IF /\ ~strptime(issue.created, FracFormat).ok
            /\ ~strptime(issue.created, PlainFormat).ok
    THEN EmptyStats
    ELSE LET created_date ==
                 IF strptime(issue.created, FracFormat).ok
                 THEN strptime(issue.created, FracFormat).secs
                 ELSE strptime(issue.created, PlainFormat).secs
             status_transitions ==
                 SortByDate(StatusTransitionsOfGetIssues(issue.histories))
             initial_status == InitialStatus(issue, status_transitions)
             walk == ProcessTransitions(
                         status_transitions,
                         [state_stats |-> InitFirstState(initial_status),
                          current_state |-> initial_status,
                          current_state_start |-> created_date])
         IN  IF Truthy(walk.current_state)
             THEN AddDuration(walk.state_stats, walk.current_state,
                              EndDateOfGetIssues(issue.resolutiondate,
                                                 walk.current_state_start, now)
                                  - walk.current_state_start)
             ELSE walk.state_stats

\* ------------------------------------------------------------ input sets
Statuses == {"To Do", "In Progress"}

\* Status changes of a changelog item: forward, back, without a from-status,
\* without a to-status.
StatusChanges ==
    {StatusItem("To Do", "In Progress"), StatusItem("In Progress", "To Do"),
     StatusItem(None, "In Progress"), StatusItem("To Do", None)}

\* History entries: well-formed status changes on every day, entries whose
\* timestamp is missing or unparsable, and an entry that edits another field
\* next to the status.
HistoryEntries ==
    {History(Plain(d), <<c>>) : d \in Days, c \in StatusChanges}
    \cup {History(AbsentTs, <<StatusItem("To Do", "In Progress")>>),
          History(GarbageTs, <<StatusItem("In Progress", "To Do")>>),
          History(Frac(0), <<OtherItem, StatusItem("In Progress", "To Do")>>)}

SeqsUpTo(S, n) == UNION {[1..k -> S] : k \in 0..n}

\* Issues with a well-formed created field and any changelog: open, resolved
\* before creation, or resolved on the last day.
WalkIssues ==
    {Issue(Plain(1), r, "To Do", h) :
        r \in {AbsentTs, Plain(0), Plain(MaxDay)},
        h \in SeqsUpTo(HistoryEntries, MaxHist)}

\* Issues with every form of the created, resolutiondate and status fields
\* and a changelog of at most one entry.
TimestampStrings ==
    {AbsentTs, EmptyTs, GarbageTs} \cup {Plain(d) : d \in Days}
    \cup {Frac(d) : d \in Days}

FieldChangelogs ==
    {<<>>, <<History(Plain(1), <<OtherItem>>)>>, <<History(Plain(2), <<>>)>>,
     <<History(GarbageTs, <<StatusItem("To Do", "In Progress")>>)>>,
     <<History(Plain(0), <<StatusItem("To Do", "In Progress")>>)>>}

FieldIssues ==
    {Issue(c, r, s, h) :
        c \in TimestampStrings, r \in TimestampStrings,
        s \in Statuses \cup {"Done", AbsentStatus}, h \in FieldChangelogs}

\* spec.md section 8, re-entry scenario: created at T, To Do -> In Progress
\* at T+1d, In Progress -> To Do at T+2d, To Do -> In Progress at T+3d,
\* unresolved.
ReentryIssue ==
    Issue(Plain(0), AbsentTs, "In Progress",
          <<History(Plain(1), <<StatusItem("To Do", "In Progress")>>),
            History(Plain(2), <<StatusItem("In Progress", "To Do")>>),
            History(Plain(3), <<StatusItem("To Do", "In Progress")>>)>>)

\* spec.md section 8, resolved-at-last-transition scenario: created
\* 2024-01-01, New -> In Progress on 2024-01-02, In Progress -> Done on
\* 2024-01-05, resolved 2024-01-05.
ResolvedAtLastTransitionIssue ==
    Issue(Plain(0), Plain(4), "Done",
          <<History(Plain(1), <<StatusItem("New", "In Progress")>>),
            History(Plain(4), <<StatusItem("In Progress", "Done")>>)>>)

\* The same issue with its changelog listed latest first.
LatestFirstIssue ==
    Issue(Plain(0), Plain(4), "Done",
          <<History(Plain(4), <<StatusItem("In Progress", "Done")>>),
            History(Plain(1), <<StatusItem("New", "In Progress")>>)>>)

Issues ==
    WalkIssues \cup FieldIssues
    \cup {ReentryIssue, ResolvedAtLastTransitionIssue, LatestFirstIssue}

\* Placeholder of the loop variable before the first iteration.
NoIssue == Issue(AbsentTs, AbsentTs, AbsentStatus, <<>>)

\* ------------------------------------------------------------------ state
VARIABLES
    issue,                  \* the argument of calculate_state_durations
    clock,                  \* the system clock, in days
    returned,               \* TRUE once the function has returned
    state_stats,            \* the value it returned
    all_issues,             \* get_jira_metrics.py: the fetched issues
    processed,              \* number of iterations of the aggregation loop done
    all_states_aggregated,  \* get_jira_metrics.py: the aggregate
    report,                 \* get_jira_metrics.py: the state duration report
    environ,                \* os.environ, as read by GitHubClient.__init__
    init_args,              \* the arguments of GitHubClient(...)
    client,                 \* the outcome of the construction
    closed_prs,             \* GitHub: the closed pull requests, as listed
    fetch_args,             \* the arguments of fetch_merged_prs
    fetch,                  \* fetch_merged_prs: its locals and its outcome
    commits,                \* GitHub: the commit messages of the pull request
    detection,              \* what detect_ai_assistance returned
    pr_discussion,          \* GitHub: comments and reviews of the pull request
    reviews_arg,            \* get_pr_comments: the reviews argument
    comments,               \* what get_pr_comments returned
    pool,                   \* get_pr_metrics.main: the thread pool and its loop
    jira_report,            \* generate_jira_report.main: the steps of a run
    members_reports,        \* generate_all_members_reports: the steps of a run
    pr_metrics,             \* get_pr_detailed_metrics: input and record
    normalized,             \* normalize_username: input and results
    statistics              \* calculate_statistics: input and result

vars == <<issue, clock, returned, state_stats, all_issues, processed,
          all_states_aggregated, report, environ, init_args, client,
          closed_prs, fetch_args, fetch, commits, detection,
          pr_discussion, reviews_arg, comments, pool, jira_report,
          members_reports, pr_metrics, normalized, statistics>>
batchVars == <<all_issues, processed, all_states_aggregated, report>>

Now == clock * SecondsPerDay

EmptyAggregate ==
    [s \in {} |-> [total_seconds |-> 0, total_count |-> 0, issue_count |-> 0]]

\* The report before the script has reached the state duration analysis.
NoReport == [outcome |-> "pending", detailed |-> <<>>]

\* The state of the Jira analysis when another part of the program runs.
JiraIdle ==
    /\ issue = NoIssue
    /\ clock = 0
    /\ returned = FALSE
    /\ state_stats = EmptyStats
    /\ all_issues = <<>>
    /\ processed = 0
    /\ all_states_aggregated = EmptyAggregate
    /\ report = NoReport

\* GitHubClient: no construction under way.
clientVars == <<environ, init_args, client>>
NoArgs == [token |-> None, repo_owner |-> None, repo_name |-> None]
NoEnviron ==
    [GITHUB_TOKEN |-> None, GITHUB_REPO_OWNER |-> None,
     GITHUB_REPO_NAME |-> None]
NoClient == [outcome |-> "pending"]
ClientIdle ==
    /\ environ = NoEnviron
    /\ init_args = NoArgs
    /\ client = NoClient

\* fetch_merged_prs: no call under way.
fetchVars == <<closed_prs, fetch_args, fetch>>
NoFetchArgs ==
    [start_date |-> Ts("date", 0), end_date |-> Ts("date", 0), per_page |-> 1]
NoFetch == [pc |-> "idle", page |-> 1, all_prs |-> <<>>,
            start_bound |-> FALSE, requested |-> <<>>]
FetchIdle ==
    /\ closed_prs = <<>>
    /\ fetch_args = NoFetchArgs
    /\ fetch = NoFetch

\* detect_ai_assistance: no call under way.
detectVars == <<commits, detection>>
NoDetection == [outcome |-> "pending"]
DetectIdle ==
    /\ commits = <<>>
    /\ detection = NoDetection

\* get_pr_comments: no call under way.  The reviews argument is None or a
\* list.
commentsVars == <<pr_discussion, reviews_arg, comments>>
NoDiscussion ==
    [review_comments |-> <<>>, issue_comments |-> <<>>, reviews |-> <<>>]
NoneReviews == [passed |-> FALSE, reviews |-> <<>>]
NoComments == [outcome |-> "pending"]
CommentsIdle ==
    /\ pr_discussion = NoDiscussion
    /\ reviews_arg = NoneReviews
    /\ comments = NoComments

githubVars == <<clientVars, fetchVars, detectVars, commentsVars>>
GithubIdle == ClientIdle /\ FetchIdle /\ DetectIdle /\ CommentsIdle

\* The scripts and the remaining functions: no call under way.
scriptVars == <<pool, jira_report, members_reports, pr_metrics, normalized,
                statistics>>
Idle == [pc |-> "idle"]
PoolIdle == pool = Idle
JiraReportIdle == jira_report = Idle
MembersReportsIdle == members_reports = Idle
PrMetricsIdle == pr_metrics = Idle
NormalizedIdle == normalized = Idle
StatisticsIdle == statistics = Idle
ScriptsIdle ==
    /\ PoolIdle
    /\ JiraReportIdle
    /\ MembersReportsIdle
    /\ PrMetricsIdle
    /\ NormalizedIdle
    /\ StatisticsIdle

\* ---------------------------------------------- Spec: single invocations
Init ==
    /\ issue \in Issues
    /\ clock = 0
    /\ returned = FALSE
    /\ state_stats = EmptyStats
    /\ all_issues = <<>>
    /\ processed = 0
    /\ all_states_aggregated = EmptyAggregate
    /\ report = NoReport
    /\ GithubIdle
    /\ ScriptsIdle

\* One invocation of calculate_state_durations(issue), at a clock reading
\* not earlier than the previous one.
Calculate(now) ==
    /\ now >= clock
    /\ clock' = now
    /\ state_stats' = calculate_state_durations(issue, now * SecondsPerDay)
    /\ returned' = TRUE
    /\ UNCHANGED <<issue, batchVars, githubVars, scriptVars>>

Next == \E now \in 0..MaxClock : Calculate(now)

Spec == Init /\ [][Next]_vars

\* ------------------------------------- SpecBatch: the aggregation loop
\* The issues a batch is drawn from: two without a parsable created
\* timestamp, a resolved issue that never changed status, the two scenario
\* issues, an open issue whose first transition has no from-status and one
\* whose only transition has no to-status.
BatchIssues ==
    {Issue(GarbageTs, Plain(2), "Done",
           <<History(Plain(1), <<StatusItem("To Do", "Done")>>)>>),
     Issue(AbsentTs, AbsentTs, "To Do", <<>>),
     Issue(Frac(0), Frac(2), "Done", <<>>),
     ReentryIssue,
     ResolvedAtLastTransitionIssue,
     Issue(Plain(1), AbsentTs, "In Progress",
           <<History(Plain(2), <<StatusItem(None, "In Progress")>>)>>),
     Issue(Plain(0), AbsentTs, "To Do",
           <<History(Plain(1), <<StatusItem("To Do", None)>>)>>)}

ZeroAggregate == [total_seconds |-> 0, total_count |-> 0, issue_count |-> 0]

\* The inner loop "for state, stats in state_stats.items()".
RECURSIVE AggregateStates(_, _, _)
AggregateStates(aggregated, stats, states) ==
    IF states = {} THEN aggregated
    ELSE LET state == CHOOSE x \in states : TRUE
             present == IF state \in DOMAIN aggregated
                        THEN aggregated
                        ELSE aggregated @@ (state :> ZeroAggregate)
         IN  AggregateStates(
                 [present EXCEPT
                     ![state].total_seconds = @ + stats[state].total_seconds,
                     ![state].total_count = @ + stats[state].count,
                     ![state].issue_count = @ + 1],
                 stats, states \ {state})

\* Faulty variant: issue_count += 1 is applied to every state aggregated so
\* far, not only to the states of this issue.
AggregateCountingEveryKnownState(aggregated, stats) ==
    LET added == AggregateStates(aggregated, stats, DOMAIN stats)
    IN  [s \in DOMAIN added |->
            IF s \in DOMAIN stats THEN added[s]
            ELSE [added[s] EXCEPT !.issue_count = @ + 1]]

Aggregate(aggregated, stats) ==
    AggregateStates(aggregated, stats, DOMAIN stats)

InitBatch ==
    /\ all_issues \in SeqsUpTo(BatchIssues, MaxBatch)
    /\ processed = 0
    /\ all_states_aggregated = EmptyAggregate
    /\ report = NoReport
    /\ issue = NoIssue
    /\ clock = 0
    /\ returned = FALSE
    /\ state_stats = EmptyStats
    /\ GithubIdle
    /\ ScriptsIdle

\* One iteration of "for issue in all_issues": the call of
\* calculate_state_durations and the inner aggregation loop.
AggregateIssue(now) ==
    /\ processed < Len(all_issues)
    /\ now >= clock
    /\ clock' = now
    /\ issue' = all_issues[processed + 1]
    /\ state_stats' = calculate_state_durations_cli(issue', now * SecondsPerDay)
    /\ returned' = TRUE
    /\ all_states_aggregated' = Aggregate(all_states_aggregated, state_stats')
    /\ processed' = processed + 1
    /\ UNCHANGED <<all_issues, report, githubVars, scriptVars>>

\* avg_transitions = stats["total_count"] / stats["issue_count"]: the
\* quotient is kept exact, as numerator and denominator.
Quotient(num, den) == [num |-> num, den |-> den]

\* "if avg_transitions > 1.5".
Warns(avg_transitions) ==
    2 * avg_transitions.num > 3 * avg_transitions.den

\* The block "--- Detailed State Analysis ---": for every aggregated state
\* the number of issues, the average entries per issue and the warning.
DetailedStateAnalysis(aggregated) ==
    [state \in DOMAIN aggregated |->
        LET stats == aggregated[state]
            avg_transitions == Quotient(stats.total_count, stats.issue_count)
        IN  [issue_count |-> stats.issue_count,
             avg_transitions |-> avg_transitions,
             warning |-> Warns(avg_transitions)]]

\* The table row f"{state:<20} ..." can be formatted for a str key only: a
\* None key raises TypeError.
Formattable(state) == state # None

\* The code after the aggregation loop.  With an empty aggregate the report
\* says that no data could be retrieved; otherwise the table is written
\* first, one row per state, and then the detailed analysis.
StateDurationReport(aggregated) ==
    IF DOMAIN aggregated = {}
    THEN [outcome |-> "no data", detailed |-> <<>>]
    ELSE IF \E state \in DOMAIN aggregated : ~Formattable(state)
         THEN [outcome |-> "TypeError", detailed |-> <<>>]
         ELSE [outcome |-> "reported",
               detailed |-> DetailedStateAnalysis(aggregated)]

WriteReport ==
    /\ processed = Len(all_issues)
    /\ report = NoReport
    /\ report' = StateDurationReport(all_states_aggregated)
    /\ UNCHANGED <<issue, clock, returned, state_stats, all_issues, processed,
                   all_states_aggregated, githubVars, scriptVars>>

NextBatch ==
    \/ \E now \in {clock, clock + 1} : AggregateIssue(now)
    \/ WriteReport

SpecBatch == InitBatch /\ [][NextBatch]_vars

\* --------------------------------- SpecClient: GitHubClient construction
jiraVars == <<issue, clock, returned, state_stats, batchVars>>

\* Faulty variant of "a or b": the second operand is preferred.
OrPreferringSecond(a, b) == IF Truthy(b) THEN b ELSE a

\* Python's "a or b": a when a is truthy, b otherwise.
Or(a, b) == IF Truthy(a) THEN a ELSE b

\* os.getenv(name): the value of the variable, None when it is not set.
getenv(name) == environ[name]

\* GitHubClient.__init__(token, repo_owner, repo_name).
GitHubClient(token, repo_owner, repo_name) ==
    LET self == [token |-> Or(token, getenv("GITHUB_TOKEN")),
                 repo_owner |-> Or(repo_owner, getenv("GITHUB_REPO_OWNER")),
                 repo_name |-> Or(repo_name, getenv("GITHUB_REPO_NAME"))]
    IN  IF ~Truthy(self.token)
        THEN [outcome |-> "ValueError",
              message |-> "GitHub token is required"]
        ELSE IF ~Truthy(self.repo_owner) \/ ~Truthy(self.repo_name)
             THEN [outcome |-> "ValueError",
                   message |-> "Repository owner and name are required"]
             ELSE [outcome |-> "constructed",
                   token |-> self.token,
                   repo_owner |-> self.repo_owner,
                   repo_name |-> self.repo_name]

\* A parameter is not passed (None), passed empty, or passed with a value;
\* an environment variable is not set (None), set empty, or set to a value.
InitArgs ==
    [token : {None, "", "test_token"},
     repo_owner : {None, "", "test_owner"},
     repo_name : {None, "", "test_repo"}]
Environs ==
    [GITHUB_TOKEN : {None, "", "env_token"},
     GITHUB_REPO_OWNER : {None, "", "env_owner"},
     GITHUB_REPO_NAME : {None, "", "env_repo"}]

InitClient ==
    /\ environ \in Environs
    /\ init_args \in InitArgs
    /\ client = NoClient
    /\ JiraIdle
    /\ ScriptsIdle
    /\ FetchIdle
    /\ DetectIdle
    /\ CommentsIdle

Construct ==
    /\ client = NoClient
    /\ client' = GitHubClient(init_args.token, init_args.repo_owner,
                              init_args.repo_name)
    /\ UNCHANGED <<environ, init_args, jiraVars, scriptVars, fetchVars, detectVars,
                   commentsVars>>

NextClient == Construct

SpecClient == InitClient /\ [][NextClient]_vars

\* ------------------------------------------ SpecFetch: fetch_merged_prs
\* GitHub timestamps "%Y-%m-%dT%H:%M:%SZ" and dates "%Y-%m-%d".
ZuluFormat == "zulu"
DateFormat == "date"
Zulu(day) == Ts(ZuluFormat, day)
DateStr(day) == Ts(DateFormat, day)

PullRequest(login, merged_at, updated_at) ==
    [user |-> [login |-> login], merged_at |-> merged_at,
     updated_at |-> updated_at]

BOT_USERS ==
    {"coderabbit", "coderabbitai", "coderabbit[bot]", "dependabot",
     "dependabot[bot]", "renovate", "renovate[bot]", "github-actions",
     "github-actions[bot]", "red-hat-konflux", "red-hat-konflux[bot]"}

\* str.lower() and str.endswith("[bot]") on the logins of the model.
Logins == {"testuser", "Renovate", "my-app[bot]"}
lower(text) ==
    CASE text = "Renovate" -> "renovate"
      [] text = "LGTM" -> "lgtm"
      [] text = "Looks Good" -> "looks good"
      [] text = "Looks good!" -> "looks good!"
      [] text = "Needs work" -> "needs work"
      [] text = "Nice work" -> "nice work"
      [] text = "@CodeRabbit help" -> "@coderabbit help"
      [] OTHER -> text
EndsWithBot(username) == username \in {"my-app[bot]"}

is_bot_user(username) ==
    IF username = "" THEN FALSE
    ELSE lower(username) \in BOT_USERS \/ EndsWithBot(lower(username))

\* The page the API serves: per_page entries of the listing, empty past
\* its end.
PageOf(listing, page, per_page) ==
    LET first == (page - 1) * per_page + 1
        last == IF page * per_page < Len(listing)
                THEN page * per_page ELSE Len(listing)
    IN  SubSeq(listing, first, last)

\* The two "continue" of the loop over a page are not taken.
MergedByHuman(pr) ==
    ~NotStr(pr.merged_at) /\ ~is_bot_user(pr.user.login)

\* start <= merged_date < end, with end = end_date + timedelta(days=1).
InDateRange(pr, start_date, end_date) ==
    LET merged_date == strptime(pr.merged_at, ZuluFormat).secs
        start == strptime(start_date, DateFormat).secs
        end == strptime(end_date, DateFormat).secs + SecondsPerDay
    IN  start <= merged_date /\ merged_date < end

RECURSIVE OldestUpdated(_)
OldestUpdated(prs) ==
    LET head == strptime(Head(prs).updated_at, ZuluFormat).secs
    IN  IF Len(prs) = 1 THEN head
        ELSE LET rest == OldestUpdated(Tail(prs))
             IN  IF rest < head THEN rest ELSE head

\* One iteration of "while True" whose request succeeded.
PageFetched(f, prs, args) ==
    LET asked == [f EXCEPT !.requested = Append(@, [page |-> f.page,
                                                     ok |-> TRUE])]
        Kept(pr) == MergedByHuman(pr)
                    /\ InDateRange(pr, args.start_date, args.end_date)
        start_bound == f.start_bound
                       \/ \E i \in 1..Len(prs) : MergedByHuman(prs[i])
        looped == [asked EXCEPT !.all_prs = @ \o SelectSeq(prs, Kept),
                                !.start_bound = start_bound]
    IN  IF prs = <<>> THEN [asked EXCEPT !.pc = "returned"]
        ELSE IF ~start_bound
             THEN [looped EXCEPT !.pc = "UnboundLocalError"]
        ELSE IF OldestUpdated(prs)
                    < strptime(args.start_date, DateFormat).secs
             THEN [looped EXCEPT !.pc = "returned"]
        ELSE [looped EXCEPT !.page = @ + 1]

\* Faulty variant: a failed request ends the loop like an empty page.
PageFailedEndingTheLoop(f) ==
    [f EXCEPT !.requested = Append(@, [page |-> f.page, ok |-> FALSE]),
              !.pc = "returned"]

\* One iteration whose request failed: requests.get or raise_for_status
\* raises, and the exception leaves the function.
PageFailed(f) ==
    [f EXCEPT !.requested = Append(@, [page |-> f.page, ok |-> FALSE]),
              !.pc = "HTTPError"]

\* A closed pull request is unmerged, or merged on or before the day of its
\* last update.
PullRequests ==
    {PullRequest("testuser", AbsentTs, Zulu(u)) : u \in Days}
    \cup {PullRequest(l, Zulu(days[1]), Zulu(days[2])) :
              l \in Logins, days \in {d \in Days \X Days : d[1] <= d[2]}}

SortedByUpdatedDesc(listing) ==
    \A i \in 1..Len(listing) - 1 :
        listing[i].updated_at.day >= listing[i + 1].updated_at.day

InitFetch ==
    /\ closed_prs \in {l \in SeqsUpTo(PullRequests, MaxPRs) :
                          SortedByUpdatedDesc(l)}
    /\ fetch_args \in [start_date : {DateStr(1)},
                        end_date : {DateStr(1), DateStr(MaxDay)},
                        per_page : {1, 2}]
    /\ fetch = [NoFetch EXCEPT !.pc = "running"]
    /\ JiraIdle
    /\ ScriptsIdle
    /\ ClientIdle
    /\ DetectIdle
    /\ CommentsIdle

GetPage ==
    /\ fetch.pc = "running"
    /\ fetch' = PageFetched(fetch,
                            PageOf(closed_prs, fetch.page, fetch_args.per_page),
                            fetch_args)
    /\ UNCHANGED <<closed_prs, fetch_args, jiraVars, scriptVars, clientVars, detectVars,
                   commentsVars>>

GetPageFails ==
    /\ fetch.pc = "running"
    /\ fetch' = PageFailed(fetch)
    /\ UNCHANGED <<closed_prs, fetch_args, jiraVars, scriptVars, clientVars, detectVars,
                   commentsVars>>

NextFetch == GetPage \/ GetPageFails

SpecFetch == InitFetch /\ [][NextFetch]_vars

\* Every request succeeds, and the loop keeps running: the thread that
\* called fetch_merged_prs is never suspended for ever.
SpecFetchFair == InitFetch /\ [][GetPage]_vars /\ WF_vars(GetPage)

\* ------------------------------------- SpecDetect: detect_ai_assistance
\* A commit message is the set of trailer lines it contains; "x in message"
\* is membership and message.lower() lowers every line.
Trailers ==
    {"Assisted-by: Claude", "assisted-by: claude", "Assisted-by: Cursor",
     "Co-Authored-By: Claude", "Co-authored-by: Claude"}

LowerTrailer(line) ==
    CASE line = "Assisted-by: Claude" -> "assisted-by: claude"
      [] line = "Assisted-by: Cursor" -> "assisted-by: cursor"
      [] line = "Co-Authored-By: Claude" -> "co-authored-by: claude"
      [] line = "Co-authored-by: Claude" -> "co-authored-by: claude"
      [] OTHER -> line
MessageLower(message) == {LowerTrailer(line) : line \in message}

AssistedByClaude(message) ==
    "Assisted-by: Claude" \in message
    \/ "assisted-by: claude" \in MessageLower(message)
AssistedByCursor(message) ==
    "Assisted-by: Cursor" \in message
    \/ "assisted-by: cursor" \in MessageLower(message)

\* Faulty variant: the Co-Authored-By pattern is matched in any case.
CoAuthoredByClaudeInAnyCase(message) ==
    "co-authored-by: claude" \in MessageLower(message)

CoAuthoredByClaude(message) == "Co-Authored-By: Claude" \in message

\* The body of "for commit in commits": three independent tests, each of
\* which adds its tool and increments ai_commits.
ExamineCommit(found, message) ==
    LET claude == IF AssistedByClaude(message)
                  THEN [ai_tools |-> found.ai_tools \cup {"Claude"},
                        ai_commits |-> found.ai_commits + 1]
                  ELSE found
        cursor == IF AssistedByCursor(message)
                  THEN [ai_tools |-> claude.ai_tools \cup {"Cursor"},
                        ai_commits |-> claude.ai_commits + 1]
                  ELSE claude
    IN  IF CoAuthoredByClaude(message)
        THEN [ai_tools |-> cursor.ai_tools \cup {"Claude"},
              ai_commits |-> cursor.ai_commits + 1]
        ELSE cursor

RECURSIVE ExamineCommits(_, _)
ExamineCommits(found, messages) ==
    IF messages = <<>> THEN found
    ELSE ExamineCommits(ExamineCommit(found, Head(messages)), Tail(messages))

\* sorted(list(ai_tools)): the tool names in alphabetical order.
SortedTools(ai_tools) ==
    SelectSeq(<<"Claude", "Cursor">>, LAMBDA tool : tool \in ai_tools)

\* detect_ai_assistance, given what get_pr_commits returned.  ai_percentage
\* is kept exact, as the quotient ai_commits * 100 / total_commits.
detect_ai_assistance(messages) ==
    LET found == ExamineCommits([ai_tools |-> {}, ai_commits |-> 0], messages)
        total_commits == Len(messages)
    IN  [outcome |-> "returned",
         has_ai_assistance |-> Cardinality(found.ai_tools) > 0,
         ai_tools |-> SortedTools(found.ai_tools),
         ai_commits_count |-> found.ai_commits,
         total_commits |-> total_commits,
         ai_percentage |-> IF total_commits > 0
                           THEN Quotient(found.ai_commits * 100, total_commits)
                           ELSE Quotient(0, 1)]

InitDetect ==
    /\ commits \in SeqsUpTo(SUBSET Trailers, MaxCommits)
    /\ detection = NoDetection
    /\ JiraIdle
    /\ ScriptsIdle
    /\ ClientIdle
    /\ FetchIdle
    /\ CommentsIdle

Detect ==
    /\ detection = NoDetection
    /\ detection' = detect_ai_assistance(commits)
    /\ UNCHANGED <<commits, jiraVars, scriptVars, clientVars, fetchVars, commentsVars>>

NextDetect == Detect

SpecDetect == InitDetect /\ [][NextDetect]_vars

\* ----------------------------------------- SpecComments: get_pr_comments
\* A review body is a text or the key is missing.
AbsentBody == "<absent>"
Review(id, state, body) == [id |-> id, state |-> state, body |-> body]

\* str.strip() and len() on the review bodies of the model.
strip(text) ==
    CASE text = "  " -> ""
      [] text = " Looks Good " -> "Looks Good"
      [] OTHER -> text
len(text) ==
    CASE text = "" -> 0
      [] text = "LGTM" -> 4
      [] text = "Nice work" -> 9
      [] text = "Looks Good" -> 10
      [] text = "Needs work" -> 10
      [] text = "Looks good!" -> 11
      [] text = "@CodeRabbit help" -> 16

\* The fourth phrase of the source is the thumbs-up emoji, U+1F44D.
ApprovalPhrases ==
    {"lgtm", "approved", "approve", "<U+1F44D>", ":+1:", "looks good"}

\* Faulty variant: a body of ten characters still counts as short.
IsApprovalOnlyUpToTen(review) ==
    /\ review.state = "APPROVED"
    /\ LET body == strip(IF review.body = AbsentBody THEN "" ELSE review.body)
       IN  body = "" \/ len(body) <= 10 \/ lower(body) \in ApprovalPhrases

\* The test of the loop "for review in reviews".
IsApprovalOnly(review) ==
    /\ review.state = "APPROVED"
    /\ LET body == strip(IF review.body = AbsentBody THEN "" ELSE review.body)
       IN  body = "" \/ len(body) < 10 \/ lower(body) \in ApprovalPhrases

\* get_pr_comments(pr_number, reviews) when every request succeeds; requested
\* lists the endpoints it has sent a GET to.
get_pr_comments(discussion, reviews) ==
    LET review_comments == discussion.review_comments
        issue_comments == discussion.issue_comments
        used == IF reviews.passed THEN reviews.reviews ELSE discussion.reviews
    IN  [outcome |-> "returned",
         requested |-> IF reviews.passed
                       THEN <<"pulls/comments", "issues/comments">>
                       ELSE <<"pulls/comments", "issues/comments",
                              "pulls/reviews">>,
         review_comments |-> review_comments,
         issue_comments |-> issue_comments,
         total_comments |-> Len(review_comments) + Len(issue_comments),
         approval_review_ids |->
             {used[i].id : i \in {j \in 1..Len(used) : IsApprovalOnly(used[j])}}]

ReviewBodies ==
    {AbsentBody, "  ", "LGTM", "Nice work", " Looks Good ", "Needs work",
     "Looks good!"}
ReviewLists ==
    {[i \in 1..Len(l) |-> Review(i, l[i][1], l[i][2])] :
        l \in SeqsUpTo({"APPROVED", "COMMENTED"} \X ReviewBodies, MaxReviews)}
CommentLists == {<<>>, <<"comment 1">>, <<"comment 1", "comment 2">>}

\* The reviews argument is None, or the list get_pr_reviews fetched before.
InitComments ==
    /\ pr_discussion \in [review_comments : CommentLists,
                           issue_comments : CommentLists,
                           reviews : ReviewLists]
    /\ reviews_arg \in {NoneReviews,
                         [passed |-> TRUE, reviews |-> pr_discussion.reviews]}
    /\ comments = NoComments
    /\ JiraIdle
    /\ ScriptsIdle
    /\ ClientIdle
    /\ FetchIdle
    /\ DetectIdle

GetPrComments ==
    /\ comments = NoComments
    /\ comments' = get_pr_comments(pr_discussion, reviews_arg)
    /\ UNCHANGED <<pr_discussion, reviews_arg, jiraVars, scriptVars, clientVars,
                   fetchVars, detectVars>>

NextComments == GetPrComments

SpecComments == InitComments /\ [][NextComments]_vars

\* ------------------------- SpecPool: the thread pool of get_pr_metrics.main
\* max_workers = min(10, len(prs)).
WorkerLimit == 10
max_workers(prs) == IF WorkerLimit < prs THEN WorkerLimit ELSE prs

\* What a future holds: the metrics record of the pull request, or None
\* when get_pr_detailed_metrics raised and analyze_single_pr caught it.
NoMetrics == [number |-> 0, analysed |-> FALSE]
Metrics(pr) == [number |-> pr, analysed |-> TRUE]
analyze_single_pr(pr, failing) ==
    IF pr \in failing THEN NoMetrics ELSE Metrics(pr)

\* Faulty variant: the result of a failed analysis is appended too.
CollectEveryResult(p, pr) ==
    [p EXCEPT !.completed = @ + 1,
              !.yielded = @ \cup {pr},
              !.prs_with_metrics = Append(@, p.result[pr])]

\* The body of "for future in as_completed(future_to_pr)".
CollectResult(p, pr) ==
    [p EXCEPT !.completed = @ + 1,
              !.yielded = @ \cup {pr},
              !.prs_with_metrics =
                  IF p.result[pr].analysed THEN Append(@, p.result[pr]) ELSE @]

\* The state after every pull request has been submitted: prs is their
\* number (main returns before this point when it is 0), failing the pull
\* requests whose analysis raises.
InitPool ==
    /\ \E prs \in 1..MaxAnalysed, failing \in SUBSET (1..MaxAnalysed) :
          /\ failing \subseteq 1..prs
          /\ pool = [pc |-> "running", prs |-> prs, failing |-> failing,
                     task |-> [pr \in 1..prs |-> "pending"],
                     runs |-> [pr \in 1..prs |-> 0],
                     result |-> [pr \in 1..prs |-> NoMetrics],
                     yielded |-> {}, completed |-> 0,
                     prs_with_metrics |-> <<>>]
    /\ JiraIdle
    /\ GithubIdle
    /\ JiraReportIdle
    /\ MembersReportsIdle
    /\ PrMetricsIdle
    /\ NormalizedIdle
    /\ StatisticsIdle

notPoolVars == <<jiraVars, githubVars, jira_report, members_reports,
                 pr_metrics, normalized, statistics>>

Working(p) == {pr \in 1..p.prs : p.task[pr] = "running"}

\* A worker thread takes the oldest pending task from the queue.
StartAnalysis(pr) ==
    /\ pool.pc = "running"
    /\ pool.task[pr] = "pending"
    /\ \A earlier \in 1..(pr - 1) : pool.task[earlier] # "pending"
    /\ Cardinality(Working(pool)) < max_workers(pool.prs)
    /\ pool' = [pool EXCEPT !.task[pr] = "running", !.runs[pr] = @ + 1]
    /\ UNCHANGED notPoolVars

\* analyze_single_pr returns in its worker thread.
FinishAnalysis(pr) ==
    /\ pool.pc = "running"
    /\ pool.task[pr] = "running"
    /\ pool' = [pool EXCEPT !.task[pr] = "finished",
                            !.result[pr] = analyze_single_pr(pr, pool.failing)]
    /\ UNCHANGED notPoolVars

\* The main thread: as_completed yields a finished future not yet yielded.
Collect(pr) ==
    /\ pool.pc = "running"
    /\ pool.task[pr] = "finished"
    /\ pr \notin pool.yielded
    /\ pool' = CollectResult(pool, pr)
    /\ UNCHANGED notPoolVars

\* as_completed is exhausted and the with-block is left.
Drain ==
    /\ pool.pc = "running"
    /\ pool.yielded = 1..pool.prs
    /\ pool' = [pool EXCEPT !.pc = "drained"]
    /\ UNCHANGED notPoolVars

NextPool ==
    \/ \E pr \in 1..MaxAnalysed :
          /\ pr <= pool.prs
          /\ StartAnalysis(pr) \/ FinishAnalysis(pr) \/ Collect(pr)
    \/ Drain

SpecPool == InitPool /\ [][NextPool]_vars

\* ---------------------------------------------- generate_jira_report.main
\* The script is run as subprocesses and helpers whose outcomes are inputs
\* of the run: whether the configuration loads, which phases' subprocess
\* exits non-zero, whether the comparison subprocess does, whether a
\* comparison file is found, and the --combine-only / --no-upload flags.
\* jira_report.log lists the steps performed, in order.
Step(name) == [step |-> name, phase |-> 0]
PhaseStep(i) == [step |-> "phase", phase |-> i]

\* Faulty variant: a failed phase is reported and the loop goes on.
PhaseReportedGoingOnAfterFailure(r, i) ==
    [r EXCEPT !.log = Append(@, PhaseStep(i)), !.next = @ + 1]

\* One turn of "for phase_name, start_date, end_date in phases".
PhaseReported(r, i) ==
    IF i \in r.failing
    THEN [r EXCEPT !.log = Append(@, PhaseStep(i)), !.pc = "return 1"]
    ELSE [r EXCEPT !.log = Append(@, PhaseStep(i)), !.next = @ + 1]

InitJiraReport ==
    /\ \E phases \in 0..MaxPhases, failing \in SUBSET (1..MaxPhases),
          flags \in [{"combine_only", "no_upload", "config_ok", "combine_ok",
                      "comparison_ok", "found"} -> BOOLEAN] :
          /\ failing \subseteq 1..phases
          /\ jira_report = [pc |-> "main", phases |-> phases,
                            failing |-> failing, flags |-> flags,
                            next |-> 1, log |-> <<>>]
    /\ JiraIdle
    /\ GithubIdle
    /\ PoolIdle
    /\ MembersReportsIdle
    /\ PrMetricsIdle
    /\ NormalizedIdle
    /\ StatisticsIdle

notJiraReportVars == <<jiraVars, githubVars, pool, members_reports,
                       pr_metrics, normalized, statistics>>

\* --combine-only: combine the existing reports, upload unless --no-upload.
CombineOnly ==
    /\ jira_report.pc = "main"
    /\ jira_report.flags["combine_only"]
    /\ jira_report' =
          IF ~jira_report.flags["combine_ok"]
          THEN [jira_report EXCEPT !.log = Append(@, Step("combine")),
                                   !.pc = "return 1"]
          ELSE IF jira_report.flags["no_upload"]
          THEN [jira_report EXCEPT !.log = Append(@, Step("combine")),
                                   !.pc = "return 0"]
          ELSE [jira_report EXCEPT
                   !.log = @ \o <<Step("combine"), Step("upload")>>,
                   !.pc = "return 0"]
    /\ UNCHANGED notJiraReportVars

LoadConfig ==
    /\ jira_report.pc = "main"
    /\ ~jira_report.flags["combine_only"]
    /\ jira_report' =
          [jira_report EXCEPT
              !.log = Append(@, Step("load")),
              !.pc = IF jira_report.flags["config_ok"] THEN "cleanup"
                                                       ELSE "return 1"]
    /\ UNCHANGED notJiraReportVars

CleanupOldReports ==
    /\ jira_report.pc = "cleanup"
    /\ jira_report' = [jira_report EXCEPT !.log = Append(@, Step("cleanup")),
                                          !.pc = "phases"]
    /\ UNCHANGED notJiraReportVars

GeneratePhaseReport ==
    /\ jira_report.pc = "phases"
    /\ jira_report.next <= jira_report.phases
    /\ jira_report' = PhaseReported(jira_report, jira_report.next)
    /\ UNCHANGED notJiraReportVars

GenerateComparisonReport ==
    /\ jira_report.pc = "phases"
    /\ jira_report.next > jira_report.phases
    /\ jira_report' =
          [jira_report EXCEPT
              !.log = Append(@, Step("comparison")),
              !.pc = IF jira_report.flags["comparison_ok"] THEN "find"
                                                           ELSE "return 1"]
    /\ UNCHANGED notJiraReportVars

FindAndUpload ==
    /\ jira_report.pc = "find"
    /\ jira_report' =
          [jira_report EXCEPT
              !.log = IF /\ jira_report.flags["found"]
                         /\ ~jira_report.flags["no_upload"]
                      THEN Append(@, Step("upload")) ELSE @,
              !.pc = "return 0"]
    /\ UNCHANGED notJiraReportVars

NextJiraReport ==
    \/ CombineOnly
    \/ LoadConfig
    \/ CleanupOldReports
    \/ GeneratePhaseReport
    \/ GenerateComparisonReport
    \/ FindAndUpload

SpecJiraReport == InitJiraReport /\ [][NextJiraReport]_vars

\* ----------------------------------------- generate_all_members_reports
\* main --all-members. Members are named by their place in the list;
\* team_ok and failing say which subprocess exits non-zero.
\* Faulty variant: the first failing member ends the run.
MemberReportedStoppingAtFailure(r, m) ==
    IF m \in r.failing
    THEN [r EXCEPT !.log = Append(@, m), !.failed_members = Append(@, m),
                   !.pc = "return 1"]
    ELSE [r EXCEPT !.log = Append(@, m), !.next = @ + 1]

\* One turn of "for member in members".
MemberReported(r, m) ==
    [r EXCEPT !.log = Append(@, m), !.next = @ + 1,
              !.failed_members = IF m \in r.failing THEN Append(@, m) ELSE @]

Team == 0

InitMembersReports ==
    /\ \E members \in 0..MaxMembers, failing \in SUBSET (1..MaxMembers),
          team_ok \in BOOLEAN :
          /\ failing \subseteq 1..members
          /\ members_reports = [pc |-> "load", members |-> members,
                                failing |-> failing, team_ok |-> team_ok,
                                next |-> 1, log |-> <<>>,
                                failed_members |-> <<>>]
    /\ JiraIdle
    /\ GithubIdle
    /\ PoolIdle
    /\ JiraReportIdle
    /\ PrMetricsIdle
    /\ NormalizedIdle
    /\ StatisticsIdle

notMembersReportsVars == <<jiraVars, githubVars, pool, jira_report,
                           pr_metrics, normalized, statistics>>

LoadTeamMembers ==
    /\ members_reports.pc = "load"
    /\ members_reports' =
          [members_reports EXCEPT
              !.pc = IF members_reports.members = 0 THEN "return 1"
                                                    ELSE "team"]
    /\ UNCHANGED notMembersReportsVars

TeamReport ==
    /\ members_reports.pc = "team"
    /\ members_reports' =
          [members_reports EXCEPT
              !.log = Append(@, Team),
              !.pc = IF members_reports.team_ok THEN "members"
                                                ELSE "return 1"]
    /\ UNCHANGED notMembersReportsVars

MemberReport ==
    /\ members_reports.pc = "members"
    /\ members_reports.next <= members_reports.members
    /\ members_reports' = MemberReported(members_reports, members_reports.next)
    /\ UNCHANGED notMembersReportsVars

Summary ==
    /\ members_reports.pc = "members"
    /\ members_reports.next > members_reports.members
    /\ members_reports' = [members_reports EXCEPT !.pc = "return 0"]
    /\ UNCHANGED notMembersReportsVars

NextMembersReports ==
    \/ LoadTeamMembers
    \/ TeamReport
    \/ MemberReport
    \/ Summary

SpecMembersReports == InitMembersReports /\ [][NextMembersReports]_vars

\* ---------------------------------------------- get_pr_detailed_metrics
\* A review or comment whose "user" is null (a deleted account).
AbsentUser == "<absent>"
PrReview(state, body, login, submitted_at) ==
    [id |-> 0, state |-> state, body |-> body, user |-> login,
     submitted_at |-> submitted_at]
PrComment(login, body) == [user |-> login, body |-> body]

HoursPerDay == 24
NoneHours == [none |-> TRUE, hours |-> 0]
Hours(h) == [none |-> FALSE, hours |-> h]

\* '"@coderabbit" in text', on the lower-cased bodies of the model.
MentionsCoderabbit(text) == text \in {"@coderabbit help"}

Min(S) == CHOOSE m \in S : \A n \in S : m <= n

Count(list, Test(_)) == Cardinality({i \in 1..Len(list) : Test(list[i])})

\* "Time to first review": min() over the reviews that carry a
\* submitted_at raises ValueError when the generator yields nothing.
time_to_first_review(reviews, created_at) ==
    IF reviews = <<>> THEN [outcome |-> "returned", value |-> NoneHours]
    ELSE LET submitted ==
                 {reviews[i].submitted_at.day :
                     i \in {j \in 1..Len(reviews) :
                               ~NotStr(reviews[j].submitted_at)}}
         IN  IF submitted = {}
             THEN [outcome |-> "ValueError", value |-> NoneHours]
             ELSE [outcome |-> "returned",
                   value |-> Hours((Min(submitted) - created_at.day)
                                       * HoursPerDay)]

HasUser(entry) == entry.user # AbsentUser
BodyOf(entry) == IF entry.body = AbsentBody THEN "" ELSE entry.body

\* The outer test of "for review in reviews": a non-empty body on a review
\* that is not approval-only.
IsSubstantiveReviewBody(review, approval_review_ids) ==
    /\ strip(BodyOf(review)) # ""
    /\ review.id \notin approval_review_ids

\* Faulty variant: approval-only reviews of humans are counted.
IsSubstantiveHumanReviewBodyWithApprovals(review, approval_review_ids) ==
    /\ strip(BodyOf(review)) # ""
    /\ HasUser(review)
    /\ ~is_bot_user(review.user)
    /\ ~MentionsCoderabbit(lower(strip(BodyOf(review))))

\* The inner tests of the same loop.
IsSubstantiveHumanReviewBody(review, approval_review_ids) ==
    /\ IsSubstantiveReviewBody(review, approval_review_ids)
    /\ HasUser(review)
    /\ ~is_bot_user(review.user)
    /\ ~MentionsCoderabbit(lower(strip(BodyOf(review))))

\* The filter of human_review_comments and human_issue_comments.
IsHumanComment(c) ==
    /\ HasUser(c)
    /\ ~is_bot_user(c.user)
    /\ ~MentionsCoderabbit(lower(BodyOf(c)))

Reviewers(reviews) ==
    {reviews[i].user : i \in {j \in 1..Len(reviews) : HasUser(reviews[j])}}

\* get_pr_detailed_metrics(pr) when every request succeeds: pr_commits is
\* what get_pr_commits serves, discussion what the reviews and comments
\* endpoints serve.
get_pr_detailed_metrics(pr, pr_commits, discussion) ==
    LET ai_info == detect_ai_assistance(pr_commits)
        reviews == discussion.reviews
        comments_info ==
            get_pr_comments(discussion, [passed |-> TRUE, reviews |-> reviews])
        time_to_merge == (pr.merged_at.day - pr.created_at.day) * HoursPerDay
        first_review == time_to_first_review(reviews, pr.created_at)
        reviewers == Reviewers(reviews)
        human_reviewers == {login \in reviewers : ~is_bot_user(login)}
        substantive_review_bodies ==
            Count(reviews, LAMBDA r :
                IsSubstantiveReviewBody(r, comments_info.approval_review_ids))
        substantive_human_review_bodies ==
            Count(reviews, LAMBDA r :
                IsSubstantiveHumanReviewBody(r,
                                             comments_info.approval_review_ids))
        total_all_comments ==
            Len(comments_info.review_comments)
                + Len(comments_info.issue_comments) + substantive_review_bodies
        human_review_comments ==
            SelectSeq(comments_info.review_comments, IsHumanComment)
        human_issue_comments ==
            SelectSeq(comments_info.issue_comments, IsHumanComment)
        total_human_comments ==
            Len(human_review_comments) + Len(human_issue_comments)
                + substantive_human_review_bodies
    IN  IF first_review.outcome # "returned"
        THEN [outcome |-> first_review.outcome]
        ELSE [outcome |-> "returned",
              has_ai_assistance |-> ai_info.has_ai_assistance,
              ai_tools |-> ai_info.ai_tools,
              ai_commits_count |-> ai_info.ai_commits_count,
              total_commits |-> ai_info.total_commits,
              ai_percentage |-> ai_info.ai_percentage,
              time_to_merge_hours |-> time_to_merge,
              time_to_merge_days |-> time_to_merge \div HoursPerDay,
              time_to_first_review_hours |-> first_review.value,
              changes_requested_count |->
                  Count(reviews, LAMBDA r : r.state = "CHANGES_REQUESTED"),
              approvals_count |->
                  Count(reviews, LAMBDA r : r.state = "APPROVED"),
              reviewers_count |-> Cardinality(reviewers),
              review_comments_count |-> Len(comments_info.review_comments),
              issue_comments_count |-> Len(comments_info.issue_comments),
              total_comments_count |-> comments_info.total_comments,
              substantive_comments_count |-> total_all_comments,
              human_reviewers_count |-> Cardinality(human_reviewers),
              human_review_comments_count |-> Len(human_review_comments),
              human_issue_comments_count |-> Len(human_issue_comments),
              human_total_comments_count |->
                  Len(human_review_comments) + Len(human_issue_comments),
              human_substantive_comments_count |-> total_human_comments]

\* Reviews: approval-only, approving with a remark, requesting changes, by
\* a bot, mentioning @coderabbit, and pending ones without submitted_at.
PrReviews ==
    {PrReview("APPROVED", "LGTM", "testuser", Zulu(1)),
     PrReview("APPROVED", "Looks good!", "testuser", Zulu(2)),
     PrReview("CHANGES_REQUESTED", "Needs work", "testuser", Zulu(2)),
     PrReview("COMMENTED", "Needs work", "Renovate", Zulu(1)),
     PrReview("COMMENTED", "@CodeRabbit help", "testuser", Zulu(1)),
     PrReview("COMMENTED", AbsentBody, AbsentUser, AbsentTs),
     PrReview("COMMENTED", "Needs work", "testuser", AbsentTs),
     PrReview("APPROVED", "", "my-app[bot]", Zulu(2))}
PrReviewLists ==
    {[i \in 1..Len(l) |-> [l[i] EXCEPT !.id = i]] :
        l \in SeqsUpTo(PrReviews, MaxReviews)}

HumanComment == PrComment("testuser", "Nice work")
PrCommentLists ==
    {<<>>, <<HumanComment>>, <<PrComment("Renovate", "Nice work")>>,
     <<HumanComment, PrComment("testuser", "@CodeRabbit help")>>,
     <<PrComment(AbsentUser, "Nice work"), HumanComment>>,
     <<PrComment("my-app[bot]", AbsentBody), HumanComment, HumanComment>>}

PrCommitLists ==
    {<<>>, <<{}>>, <<{"Assisted-by: Claude"}, {}>>,
     <<{"Assisted-by: Claude", "Assisted-by: Cursor"}>>}

NoPrMetrics == [outcome |-> "pending"]

InitPrMetrics ==
    /\ \E merged \in Days, reviews \in PrReviewLists,
          review_comments \in PrCommentLists,
          issue_comments \in PrCommentLists, pr_commits \in PrCommitLists :
          pr_metrics =
              [pc |-> "called",
               pr |-> [created_at |-> Zulu(0), merged_at |-> Zulu(merged)],
               pr_commits |-> pr_commits,
               discussion |-> [review_comments |-> review_comments,
                               issue_comments |-> issue_comments,
                               reviews |-> reviews],
               metrics |-> NoPrMetrics]
    /\ JiraIdle
    /\ GithubIdle
    /\ PoolIdle
    /\ JiraReportIdle
    /\ MembersReportsIdle
    /\ NormalizedIdle
    /\ StatisticsIdle

GetPrDetailedMetrics ==
    /\ pr_metrics.pc = "called"
    /\ pr_metrics' =
          [pr_metrics EXCEPT
              !.pc = "done",
              !.metrics = get_pr_detailed_metrics(pr_metrics.pr,
                                                  pr_metrics.pr_commits,
                                                  pr_metrics.discussion)]
    /\ UNCHANGED <<jiraVars, githubVars, pool, jira_report, members_reports,
                   normalized, statistics>>

NextPrMetrics == GetPrDetailedMetrics

SpecPrMetrics == InitPrMetrics /\ [][NextPrMetrics]_vars

\* --------------------------------------------------- normalize_username
\* Usernames are sequences of characters; None is the sequence holding the
\* one element None, which is no character.
NoneName == <<None>>
RhEe == <<"r", "h", "-", "e", "e", "-">>
Digits == {"1", "7"}

\* username.split("@")[0]: the text before the first "@".
RECURSIVE BeforeAt(_)
BeforeAt(username) ==
    IF username = <<>> THEN <<>>
    ELSE IF Head(username) = "@" THEN <<>>
    ELSE <<Head(username)>> \o BeforeAt(Tail(username))

startswith(username, prefix) ==
    /\ Len(username) >= Len(prefix)
    /\ SubSeq(username, 1, Len(prefix)) = prefix

\* The number of digits the text ends with.
RECURSIVE TrailingDigits(_)
TrailingDigits(username) ==
    IF username = <<>> THEN 0
    ELSE IF username[Len(username)] \in Digits
         THEN 1 + TrailingDigits(SubSeq(username, 1, Len(username) - 1))
    ELSE 0

\* re.sub(r'-\d+$', '', username): the one match ends the text and starts
\* at the hyphen before its last run of digits.
RemoveNumericSuffix(username) ==
    LET digits == TrailingDigits(username)
        hyphen == Len(username) - digits
    IN  IF digits > 0 /\ hyphen >= 1 /\ username[hyphen] = "-"
        THEN SubSeq(username, 1, hyphen - 1)
        ELSE username

normalize_username(username) ==
    IF username = NoneName \/ username = <<>> THEN username
    ELSE LET local == BeforeAt(username)
             unprefixed == IF startswith(local, RhEe)
                           THEN SubSeq(local, Len(RhEe) + 1, Len(local))
                           ELSE local
         IN  RemoveNumericSuffix(unprefixed)

RECURSIVE Repeat(_, _)
Repeat(text, times) ==
    IF times = 0 THEN <<>> ELSE text \o Repeat(text, times - 1)

\* Usernames: the rh-ee- prefix and a numeric suffix up to MaxRepeat times
\* around a stem, with or without an email domain.
Stems == {<<>>, <<"a">>, <<"a", "-">>, <<"7">>}
Domains == {<<>>, <<"@", "a">>, <<"@", "a", "-", "1">>}
Usernames ==
    {Repeat(RhEe, p) \o stem \o Repeat(<<"-", "1">>, s) \o domain :
        p \in 0..MaxRepeat, s \in 0..MaxRepeat, stem \in Stems,
        domain \in Domains}
    \cup {NoneName}

InitNormalize ==
    /\ \E username \in Usernames :
          normalized = [pc |-> "called", username |-> username,
                        once |-> <<>>, twice |-> <<>>]
    /\ JiraIdle
    /\ GithubIdle
    /\ PoolIdle
    /\ JiraReportIdle
    /\ MembersReportsIdle
    /\ PrMetricsIdle
    /\ StatisticsIdle

notNormalizedVars == <<jiraVars, githubVars, pool, jira_report,
                       members_reports, pr_metrics, statistics>>

\* identifier = normalize_username(assignee)
Normalize ==
    /\ normalized.pc = "called"
    /\ normalized' =
          [normalized EXCEPT !.pc = "once",
                             !.once = normalize_username(normalized.username)]
    /\ UNCHANGED notNormalizedVars

\* The identifier is normalised again where it is used.
NormalizeAgain ==
    /\ normalized.pc = "once"
    /\ normalized' =
          [normalized EXCEPT !.pc = "twice",
                             !.twice = normalize_username(normalized.once)]
    /\ UNCHANGED notNormalizedVars

NextNormalize == Normalize \/ NormalizeAgain

SpecNormalize == InitNormalize /\ [][NextNormalize]_vars

\* ------------------------------------------------- calculate_statistics
\* The size metrics (additions, deletions, changed_files) come from
\* get_pr_details and are averaged as the other metrics are; they are not
\* part of the records of the model.
RECURSIVE sum(_)
sum(values) ==
    IF values = <<>> THEN 0 ELSE Head(values) + sum(Tail(values))

\* [Value(pr) for pr in prs]
ValuesOf(prs, Value(_)) == [i \in 1..Len(prs) |-> Value(prs[i])]

Zero == Quotient(0, 1)

\* avg(values): sum(values) / len(values) if values else 0.
avg(values) ==
    IF values # <<>> THEN Quotient(sum(values), Len(values)) ELSE Zero

\* "if pr['time_to_first_review_hours']": neither None nor 0.
HasFirstReviewHours(pr) ==
    /\ ~pr.time_to_first_review_hours.none
    /\ pr.time_to_first_review_hours.hours # 0

\* ai_stats and non_ai_stats: {} for no pull request.
NoStats == [count |-> 0]
GroupStats(prs) ==
    IF prs = <<>> THEN NoStats
    ELSE [count |-> Len(prs),
          avg_time_to_merge_days |->
              avg(ValuesOf(prs, LAMBDA pr : pr.time_to_merge_days)),
          avg_time_to_first_review_hours |->
              avg(ValuesOf(SelectSeq(prs, HasFirstReviewHours),
                           LAMBDA pr : pr.time_to_first_review_hours.hours)),
          avg_changes_requested |->
              avg(ValuesOf(prs, LAMBDA pr : pr.changes_requested_count)),
          avg_commits |-> avg(ValuesOf(prs, LAMBDA pr : pr.total_commits)),
          avg_reviewers |-> avg(ValuesOf(prs, LAMBDA pr : pr.reviewers_count)),
          avg_comments |-> avg(ValuesOf(prs, LAMBDA pr : pr.total_comments_count))]

\* stats.get(key, 0) for the two keys of the comparison.
MergeDaysOf(stats) ==
    IF stats = NoStats THEN Zero ELSE stats.avg_time_to_merge_days
ChangesRequestedOf(stats) ==
    IF stats = NoStats THEN Zero ELSE stats.avg_changes_requested

\* (non_ai - ai) / non_ai * 100 if non_ai > 0 else 0, on exact quotients.
Improvement(non_ai, ai) ==
    IF non_ai.num > 0
    THEN Quotient((non_ai.num * ai.den - ai.num * non_ai.den) * 100,
                  non_ai.num * ai.den)
    ELSE Zero

MentionsTool(pr, tool) == \E i \in 1..Len(pr.ai_tools) : pr.ai_tools[i] = tool

\* Faulty variant: a pull request with one tool counts as using both.
UsesAnyTool(pr) == Len(pr.ai_tools) > 0

\* both_prs: len(pr["ai_tools"]) > 1.
UsesBothTools(pr) == Len(pr.ai_tools) > 1

calculate_statistics(prs_with_metrics) ==
    IF prs_with_metrics = <<>>
    THEN [total_prs |-> 0, ai_assisted_prs |-> 0, non_ai_prs |-> 0,
          ai_adoption_rate |-> Zero]
    ELSE LET ai_prs ==
                 SelectSeq(prs_with_metrics, LAMBDA pr : pr.has_ai_assistance)
             non_ai_prs ==
                 SelectSeq(prs_with_metrics, LAMBDA pr : ~pr.has_ai_assistance)
             claude_prs ==
                 SelectSeq(ai_prs, LAMBDA pr : MentionsTool(pr, "Claude"))
             cursor_prs ==
                 SelectSeq(ai_prs, LAMBDA pr : MentionsTool(pr, "Cursor"))
             both_prs == SelectSeq(ai_prs, UsesBothTools)
             ai_stats == GroupStats(ai_prs)
             non_ai_stats == GroupStats(non_ai_prs)
         IN  [total_prs |-> Len(prs_with_metrics),
              ai_assisted_prs |-> Len(ai_prs),
              non_ai_prs |-> Len(non_ai_prs),
              ai_adoption_rate |->
                  Quotient(Len(ai_prs) * 100, Len(prs_with_metrics)),
              claude_prs |-> Len(claude_prs),
              cursor_prs |-> Len(cursor_prs),
              both_tools_prs |-> Len(both_prs),
              ai_stats |-> ai_stats,
              non_ai_stats |-> non_ai_stats,
              comparison |->
                  [merge_time_improvement |->
                       Improvement(MergeDaysOf(non_ai_stats),
                                   MergeDaysOf(ai_stats)),
                   changes_requested_reduction |->
                       Improvement(ChangesRequestedOf(non_ai_stats),
                                   ChangesRequestedOf(ai_stats))]]

\* The records main hands over: what get_pr_detailed_metrics returned for
\* pull requests merged at once or late, with each list of commits, without
\* reviews or with a request for changes.
ChangesRequestedDiscussion ==
    [review_comments |-> <<HumanComment>>, issue_comments |-> <<>>,
     reviews |-> <<[PrReview("CHANGES_REQUESTED", "Needs work", "testuser",
                             Zulu(1)) EXCEPT !.id = 1]>>]
AnalysedPrs ==
    {get_pr_detailed_metrics(
         [created_at |-> Zulu(0), merged_at |-> Zulu(merged)], pr_commits,
         discussion) :
        merged \in {0, MaxDay}, pr_commits \in PrCommitLists,
        discussion \in {NoDiscussion, ChangesRequestedDiscussion}}

InitStatistics ==
    /\ \E prs_with_metrics \in SeqsUpTo(AnalysedPrs, MaxAnalysed) :
          statistics = [pc |-> "called",
                        prs_with_metrics |-> prs_with_metrics,
                        stats |-> NoStats]
    /\ JiraIdle
    /\ GithubIdle
    /\ PoolIdle
    /\ JiraReportIdle
    /\ MembersReportsIdle
    /\ PrMetricsIdle
    /\ NormalizedIdle

CalculateStatistics ==
    /\ statistics.pc = "called"
    /\ statistics' =
          [statistics EXCEPT
              !.pc = "done",
              !.stats = calculate_statistics(statistics.prs_with_metrics)]
    /\ UNCHANGED <<jiraVars, githubVars, pool, jira_report, members_reports,
                   pr_metrics, normalized>>

NextStatistics == CalculateStatistics

SpecStatistics == InitStatistics /\ [][NextStatistics]_vars

\* ------------------------------------------------- vocabulary of the claims
\* A timestamp string matches one of the two accepted formats.
Parsable(ts) == ts.form \in {"frac", "plain"}
InstantOf(ts) == ts.day * SecondsPerDay

CreatedAt == InstantOf(issue.created)

\* The resolution time if there is one, otherwise the clock reading of the
\* invocation.
EndOfAnalysis ==
    IF Parsable(issue.resolutiondate) THEN InstantOf(issue.resolutiondate)
    ELSE Now

RECURSIVE SumOfSeconds(_, _)
SumOfSeconds(stats, keys) ==
    IF keys = {} THEN 0
    ELSE LET k == CHOOSE x \in keys : TRUE
         IN  stats[k].total_seconds + SumOfSeconds(stats, keys \ {k})

\* The status changes of the issue in time order.
SortedChanges == SortByDate(BuildTransitions(issue.histories))
NumChanges == Len(SortedChanges)

\* The successive stays of the issue: stay 0 begins at creation in the
\* initial status, stay i begins with the i-th change.
StayStatus(i) ==
    IF i = 0 THEN InitialStatus(issue, SortedChanges) ELSE SortedChanges[i].to
StayStart(i) == IF i = 0 THEN CreatedAt ELSE SortedChanges[i].date
StayEnd(i) == IF i < NumChanges THEN SortedChanges[i + 1].date ELSE EndOfAnalysis

RECURSIVE TimeIn(_, _)
TimeIn(s, i) ==
    IF i > NumChanges THEN 0
    ELSE (IF StayStatus(i) = s THEN StayEnd(i) - StayStart(i) ELSE 0)
             + TimeIn(s, i + 1)

EntriesInto(s) ==
    Cardinality({i \in 1..NumChanges : SortedChanges[i].to = s})
        + (IF InitialStatus(issue, SortedChanges) = s THEN 1 ELSE 0)

NoStatusChange ==
    \A i \in DOMAIN issue.histories :
        \A j \in DOMAIN issue.histories[i].items :
            issue.histories[i].items[j].field # "status"

Stat(seconds, count) == [total_seconds |-> seconds, count |-> count]

\* ------------------------------------------------------------------ claims
\* C1: for every issue with a parsable created timestamp, missing from- or
\* to-statuses included, the total_seconds of all statuses add up to
\* end_of_analysis - created.
C1_SumIsLifetime ==
    (returned /\ Parsable(issue.created)) =>
        SumOfSeconds(state_stats, DOMAIN state_stats) = EndOfAnalysis - CreatedAt

\* C2: for every input, every status of the result has total_seconds >= 0
\* (a negative interval is clamped to zero).
C2_NoNegativeDuration ==
    returned => \A s \in DOMAIN state_stats : state_stats[s].total_seconds >= 0

\* C3: with a parsable created timestamp and no status-change item in the
\* changelog, the result is exactly one entry, keyed by the current status,
\* with total_seconds = end_of_analysis - created and count = 1.
C3_NoTransitions ==
    (returned /\ Parsable(issue.created) /\ NoStatusChange) =>
        state_stats = (CurrentStatus(issue) :> Stat(EndOfAnalysis - CreatedAt, 1))

C3_Witness ==
    /\ returned /\ Parsable(issue.created) /\ NoStatusChange
    /\ issue.histories # <<>>
    /\ issue.status = AbsentStatus
    /\ "Unknown" \in DOMAIN state_stats
    /\ state_stats["Unknown"].total_seconds > 0

C6_InitialStatusEntered ==
    (returned /\ Parsable(issue.created)) =>
        /\ InitialStatus(issue, SortedChanges) \in DOMAIN state_stats
        /\ state_stats[InitialStatus(issue, SortedChanges)].count >= 1

\* C7: if the created timestamp is absent, empty or in neither accepted
\* format, the result is empty, whatever the changelog, status and
\* resolution date hold.
C7_UnparsableCreated ==
    (returned /\ ~Parsable(issue.created)) => state_stats = EmptyStats

C7_Witness ==
    /\ returned /\ issue.created = GarbageTs
    /\ ~NoStatusChange
    /\ Parsable(issue.resolutiondate)
    /\ state_stats = EmptyStats

HasParsableStamp(history) == Parsable(history.created)
WithoutUnparsableHistories(i) ==
    [i EXCEPT !.histories = SelectSeq(i.histories, HasParsableStamp)]

\* C8: a history entry whose timestamp is missing or unparsable is skipped:
\* the result equals the result on the issue without those entries.
C8_UnparsableHistorySkipped ==
    returned =>
        state_stats =
            calculate_state_durations(WithoutUnparsableHistories(issue), Now)

C8_Witness ==
    /\ returned /\ Parsable(issue.created)
    /\ Len(issue.histories) = 2
    /\ ~Parsable(issue.histories[1].created)
    /\ Parsable(issue.histories[2].created)
    /\ ~NoStatusChange
    /\ Cardinality(DOMAIN state_stats) = 2

\* C9: two invocations on the same issue return identical results.
C9_SameResultOnEveryInvocation ==
    [][(returned /\ returned') => state_stats' = state_stats]_vars

\* What the aggregate holds for a status before an iteration; one iteration
\* of the loop as a relation between the states before and after it.
PriorAggregate(s) ==
    IF s \in DOMAIN all_states_aggregated THEN all_states_aggregated[s]
    ELSE ZeroAggregate

C10_Iteration ==
    processed' # processed =>
        /\ processed' = processed + 1
        /\ issue' = all_issues[processed']
        /\ ~Parsable(issue'.created) =>
               all_states_aggregated' = all_states_aggregated
        /\ \A s \in DOMAIN state_stats' :
               /\ s \in DOMAIN all_states_aggregated'
               /\ all_states_aggregated'[s].issue_count =
                      PriorAggregate(s).issue_count + 1
               /\ all_states_aggregated'[s].total_count =
                      PriorAggregate(s).total_count + state_stats'[s].count
               /\ all_states_aggregated'[s].total_seconds =
                      PriorAggregate(s).total_seconds
                          + state_stats'[s].total_seconds
        /\ \A s \in DOMAIN all_states_aggregated :
               s \notin DOMAIN state_stats' =>
                   /\ s \in DOMAIN all_states_aggregated'
                   /\ all_states_aggregated'[s] = all_states_aggregated[s]

\* C10: in the aggregation loop an issue whose result is empty (unparsable
\* created timestamp) changes no field of any aggregated status and does not
\* stop the loop: the loop moves on to the next issue, and every issue adds
\* its own statuses (total_seconds, total_count, one to issue_count).
C10_EmptyResultContributesNothing == [][C10_Iteration]_vars

\* A batch of three whose second issue has no parsable created timestamp:
\* the loop has gone past it and aggregated the third.
C10_Witness ==
    /\ processed = 3
    /\ Parsable(all_issues[1].created)
    /\ ~Parsable(all_issues[2].created)
    /\ all_issues[3] = ReentryIssue
    /\ all_issues[1] = ResolvedAtLastTransitionIssue
    /\ all_states_aggregated["In Progress"].issue_count = 2
    /\ all_states_aggregated["In Progress"].total_count = 3

\* The result of calculate_state_durations for the i-th issue of the batch;
\* its keys and counts do not depend on the clock.
PerIssueResult(i) == calculate_state_durations_cli(all_issues[i], 0)

IssuesWith(s) == {i \in 1..Len(all_issues) : s \in DOMAIN PerIssueResult(i)}

RECURSIVE SumOfCounts(_, _)
SumOfCounts(s, is) ==
    IF is = {} THEN 0
    ELSE LET i == CHOOSE x \in is : TRUE
         IN  PerIssueResult(i)[s].count + SumOfCounts(s, is \ {i})

\* C11: once the batch is aggregated and the report is written, for every
\* aggregated status issue_count is the number of issues whose result has
\* the status, total_count is the sum of their counts, the reported average
\* is total_count / issue_count and at least 1, and the warning is given
\* iff the average exceeds 1.5.
C11_AverageAndWarning ==
    report # NoReport =>
        \A s \in DOMAIN all_states_aggregated :
            LET issue_count == Cardinality(IssuesWith(s))
                total_count == SumOfCounts(s, IssuesWith(s))
            IN  /\ all_states_aggregated[s].issue_count = issue_count
                /\ all_states_aggregated[s].total_count = total_count
                /\ s \in DOMAIN report.detailed
                /\ report.detailed[s].avg_transitions
                       = Quotient(total_count, issue_count)
                /\ total_count >= issue_count
                /\ report.detailed[s].warning
                       <=> 2 * total_count > 3 * issue_count

\* A parameter or an environment variable carries a value.
Given(value) == value # None /\ value # ""

TokenAvailable == Given(init_args.token) \/ Given(environ.GITHUB_TOKEN)
OwnerAvailable ==
    Given(init_args.repo_owner) \/ Given(environ.GITHUB_REPO_OWNER)
NameAvailable ==
    Given(init_args.repo_name) \/ Given(environ.GITHUB_REPO_NAME)
ParameterElseEnvironment(parameter, variable) ==
    IF Given(parameter) THEN parameter ELSE variable

\* C12: the construction raises ValueError when neither the parameter nor
\* GITHUB_TOKEN gives a token, and when a token is available but the owner
\* or the name comes from neither source; otherwise it succeeds and token,
\* repo_owner and repo_name each hold the parameter if given, else the value
\* of the environment variable.
C12_Construction ==
    client # NoClient =>
        IF ~TokenAvailable \/ ~OwnerAvailable \/ ~NameAvailable
        THEN client.outcome = "ValueError"
        ELSE /\ client.outcome = "constructed"
             /\ client.token = ParameterElseEnvironment(
                                   init_args.token, environ.GITHUB_TOKEN)
             /\ client.repo_owner = ParameterElseEnvironment(
                                   init_args.repo_owner,
                                   environ.GITHUB_REPO_OWNER)
             /\ client.repo_name = ParameterElseEnvironment(
                                   init_args.repo_name,
                                   environ.GITHUB_REPO_NAME)

\* A client built from a token parameter that overrides GITHUB_TOKEN, an
\* owner taken from the environment and a name passed as parameter.
C12_Witness ==
    /\ client.outcome = "constructed"
    /\ Given(init_args.token) /\ Given(environ.GITHUB_TOKEN)
    /\ ~Given(init_args.repo_owner)
    /\ Given(init_args.repo_name) /\ ~Given(environ.GITHUB_REPO_NAME)

\* The closed pull requests that are merged, not written by a bot and merged
\* between start_date 00:00 and the end of end_date, in the order listed.
MergedInRange ==
    LET Wanted(pr) ==
            /\ pr.merged_at.form = ZuluFormat
            /\ ~is_bot_user(pr.user.login)
            /\ fetch_args.start_date.day <= pr.merged_at.day
            /\ pr.merged_at.day < fetch_args.end_date.day + 1
    IN  SelectSeq(closed_prs, Wanted)

EveryRequestSucceeded ==
    \A i \in 1..Len(fetch.requested) : fetch.requested[i].ok

\* C13: with the listing sorted by updated_at descending and merged_at <=
\* updated_at, a call whose requests all succeed returns all and only the
\* closed pull requests that are merged, not bot-authored and merged in
\* [start_date 00:00, end_date + 1 day).
C13_ReturnsMergedInRange ==
    (fetch.pc \notin {"idle", "running"} /\ EveryRequestSucceeded) =>
        /\ fetch.pc = "returned"
        /\ fetch.all_prs = MergedInRange

\* C14: a failed request is the last request of the call and the call ends
\* with the error: nothing is returned and no further page is requested.
C14_FailurePropagates ==
    \A i \in 1..Len(fetch.requested) :
        ~fetch.requested[i].ok =>
            /\ i = Len(fetch.requested)
            /\ fetch.pc = "HTTPError"

\* The request for page 2 fails after page 1 has put a pull request into
\* all_prs and while the listing has a second page.
C14_Witness ==
    /\ fetch.pc = "HTTPError"
    /\ Len(fetch.requested) = 2
    /\ fetch.all_prs # <<>>
    /\ Len(closed_prs) > fetch_args.per_page

\* The markers of the claims: an Assisted-by trailer naming the tool, in any
\* case, and for Claude also the exact text Co-Authored-By: Claude.
NamesClaude(message) ==
    \/ \E line \in message : LowerTrailer(line) = "assisted-by: claude"
    \/ "Co-Authored-By: Claude" \in message
NamesCursor(message) ==
    \E line \in message : LowerTrailer(line) = "assisted-by: cursor"
HasMarker(message) == NamesClaude(message) \/ NamesCursor(message)
SomeCommit(Test(_)) == \E i \in 1..Len(commits) : Test(commits[i])

\* C15: has_ai_assistance is True iff some commit message has a marker;
\* ai_tools lists, sorted and without duplicates, exactly the tools whose
\* marker occurs, and is empty exactly when has_ai_assistance is False.
C15_ToolsDetected ==
    detection # NoDetection =>
        /\ detection.has_ai_assistance <=> SomeCommit(HasMarker)
        /\ detection.ai_tools \in
               {<<>>, <<"Claude">>, <<"Cursor">>, <<"Claude", "Cursor">>}
        /\ (\E i \in 1..Len(detection.ai_tools) :
                detection.ai_tools[i] = "Claude") <=> SomeCommit(NamesClaude)
        /\ (\E i \in 1..Len(detection.ai_tools) :
                detection.ai_tools[i] = "Cursor") <=> SomeCommit(NamesCursor)
        /\ detection.ai_tools = <<>> <=> ~detection.has_ai_assistance

\* Two commits name both tools, one of them in lower case only, next to a
\* Co-authored-by line in the casing that is not a marker.
C15_Witness ==
    /\ detection # NoDetection
    /\ detection.ai_tools = <<"Claude", "Cursor">>
    /\ \E i \in 1..Len(commits) :
           commits[i] = {"assisted-by: claude", "Co-authored-by: Claude"}

RECURSIVE CommitsWithMarker(_)
CommitsWithMarker(messages) ==
    IF messages = <<>> THEN 0
    ELSE (IF HasMarker(Head(messages)) THEN 1 ELSE 0)
         + CommitsWithMarker(Tail(messages))

\* C16: ai_commits_count is the number of commits with at least one marker,
\* so 0 <= ai_commits_count <= total_commits and 0 <= ai_percentage <= 100,
\* and ai_percentage is 0 when there are no commits.
C16_CountOfMarkedCommits ==
    detection # NoDetection =>
        /\ detection.total_commits = Len(commits)
        /\ detection.ai_commits_count = CommitsWithMarker(commits)
        /\ 0 <= detection.ai_commits_count
        /\ detection.ai_commits_count <= detection.total_commits
        /\ 0 <= detection.ai_percentage.num
        /\ detection.ai_percentage.num <= 100 * detection.ai_percentage.den
        /\ commits = <<>> => detection.ai_percentage.num = 0

\* The bodies of the model that are empty once stripped, shorter than 10
\* characters, or an approval phrase in some case.
ApprovalOnlyBodies == {AbsentBody, "  ", "LGTM", "Nice work", " Looks Good "}

\* C17: total_comments is the number of review comments plus the number of
\* issue comments; approval_review_ids holds the ids of exactly the APPROVED
\* reviews whose stripped body is empty, shorter than 10 characters or an
\* approval phrase; three requests are sent when no reviews list is passed
\* and two when one is passed.
C17_CommentsAndApprovals ==
    comments # NoComments =>
        /\ comments.total_comments
               = Len(pr_discussion.review_comments)
                 + Len(pr_discussion.issue_comments)
        /\ comments.approval_review_ids
               = {i \in 1..Len(pr_discussion.reviews) :
                     /\ pr_discussion.reviews[i].state = "APPROVED"
                     /\ pr_discussion.reviews[i].body \in ApprovalOnlyBodies}
        /\ Len(comments.requested) = IF reviews_arg.passed THEN 2 ELSE 3

\* A pre-fetched list with an approval whose body is the ten-character
\* phrase in mixed case and an approval with another ten-character body.
C17_Witness ==
    /\ comments # NoComments
    /\ reviews_arg.passed
    /\ comments.total_comments = 3
    /\ comments.approval_review_ids = {1}
    /\ pr_discussion.reviews = <<Review(1, "APPROVED", " Looks Good "),
                                 Review(2, "APPROVED", "Needs work")>>

\* The histories with a parsable timestamp have pairwise distinct instants.
DistinctTimestamps(histories) ==
    \A i, j \in DOMAIN histories :
        (i # j /\ Parsable(histories[i].created)
               /\ Parsable(histories[j].created))
            => InstantOf(histories[i].created) # InstantOf(histories[j].created)

Orders(n) ==
    {p \in [1..n -> 1..n] : \A i, j \in 1..n : p[i] = p[j] => i = j}
Reordered(histories, p) == [i \in DOMAIN histories |-> histories[p[i]]]

\* The status changes in the order listed, and the first of those with the
\* earliest timestamp.
ListedChanges == BuildTransitions(issue.histories)
EarliestChange ==
    ListedChanges[CHOOSE i \in DOMAIN ListedChanges :
                     \A j \in DOMAIN ListedChanges :
                         \/ ListedChanges[i].date < ListedChanges[j].date
                         \/ /\ ListedChanges[i].date = ListedChanges[j].date
                            /\ i <= j]
NeverEntered(s) ==
    \A i \in DOMAIN ListedChanges : ListedChanges[i].to # s

\* C18: with pairwise distinct history timestamps the result is the same for
\* every order in which the histories are listed, and the time from creation
\* to the earliest change goes to the from-status of that change: a
\* from-status no change enters has exactly that time and count 1.
C18_OrderOfHistoriesIrrelevant ==
    (returned /\ DistinctTimestamps(issue.histories)) =>
        /\ \A p \in Orders(Len(issue.histories)) :
               calculate_state_durations(
                   [issue EXCEPT !.histories = Reordered(@, p)], Now)
                   = state_stats
        /\ (/\ Parsable(issue.created)
            /\ ListedChanges # <<>>
            /\ Truthy(EarliestChange.from)
            /\ NeverEntered(EarliestChange.from))
               => /\ EarliestChange.from \in DOMAIN state_stats
                  /\ state_stats[EarliestChange.from]
                         = Stat(EarliestChange.date - CreatedAt, 1)

\* Two histories listed latest first, whose from-statuses differ, on an
\* issue whose earliest from-status is never entered again.
C18_Witness ==
    /\ returned
    /\ Parsable(issue.created)
    /\ DistinctTimestamps(issue.histories)
    /\ Len(ListedChanges) = 2
    /\ ListedChanges[1].date > ListedChanges[2].date
    /\ ListedChanges[1].from # ListedChanges[2].from
    /\ EarliestChange = ListedChanges[2]
    /\ Truthy(EarliestChange.from)
    /\ NeverEntered(EarliestChange.from)
    /\ EarliestChange.date > CreatedAt

\* A reordering of the histories that only exchanges histories of the same
\* instant.
OnlyReordersTies(histories, p) ==
    \A i \in DOMAIN histories :
        \/ p[i] = i
        \/ /\ Parsable(histories[i].created)
           /\ Parsable(histories[p[i]].created)
           /\ InstantOf(histories[i].created)
                  = InstantOf(histories[p[i]].created)

SecondsOf(stats, s) ==
    IF s \in DOMAIN stats THEN stats[s].total_seconds ELSE 0

\* C19 as stated: two issues that differ only in the listed order of
\* transitions with equal timestamps have the same total_seconds for every
\* status.
C19_TieOrderDoesNotBiasTotals ==
    returned =>
        \A p \in Orders(Len(issue.histories)) :
            OnlyReordersTies(issue.histories, p) =>
                LET other == calculate_state_durations(
                                 [issue EXCEPT !.histories = Reordered(@, p)],
                                 Now)
                IN  \A s \in DOMAIN state_stats \cup DOMAIN other :
                        SecondsOf(state_stats, s) = SecondsOf(other, s)

\* The place of the k-th listed change in the walk: after the changes of an
\* earlier date and after the changes of the same date listed before it.
PlaceInWalk(k) ==
    1 + Cardinality({m \in DOMAIN ListedChanges :
                        \/ ListedChanges[m].date < ListedChanges[k].date
                        \/ /\ ListedChanges[m].date = ListedChanges[k].date
                           /\ m < k})

\* The i-th change of the walk is followed by a change of the same date.
TiedWithNext(i) ==
    i < NumChanges /\ SortedChanges[i].date = SortedChanges[i + 1].date

\* C19, amended: changes with the same timestamp are walked in the order
\* listed, and a status entered only by a change that is followed by a
\* change of the same timestamp has total_seconds 0 and count 1.
C19_TiesWalkedInListedOrder ==
    returned =>
        /\ \A k \in DOMAIN ListedChanges :
               SortedChanges[PlaceInWalk(k)] = ListedChanges[k]
        /\ Parsable(issue.created) =>
               \A i \in 1..NumChanges :
                   (/\ TiedWithNext(i)
                    /\ Truthy(SortedChanges[i].to)
                    /\ EntriesInto(SortedChanges[i].to) = 1)
                       => /\ SortedChanges[i].to \in DOMAIN state_stats
                          /\ state_stats[SortedChanges[i].to] = Stat(0, 1)

\* Two changes of the same day, To Do -> In Progress listed before In
\* Progress -> To Do: In Progress is entered by the first of them only and
\* gets no time.
C19_Witness ==
    /\ returned
    /\ Parsable(issue.created)
    /\ NumChanges = 2
    /\ TiedWithNext(1)
    /\ ListedChanges[1].from = "To Do"
    /\ ListedChanges[1].to = "In Progress"
    /\ ListedChanges[2].from = "In Progress"
    /\ ListedChanges[2].to = "To Do"
    /\ state_stats["In Progress"] = Stat(0, 1)
    /\ ListedChanges[1].date > CreatedAt

\* state_stats after the first k changes of the walk.
StatsAfter(k) ==
    LET initial_status == InitialStatus(issue, SortedChanges)
    IN  ProcessTransitions(
            SubSeq(SortedChanges, 1, k),
            [state_stats |-> InitFirstState(initial_status),
             current_state |-> initial_status,
             current_state_start |-> CreatedAt]).state_stats

EveryKeyCounted(stats) == \A s \in DOMAIN stats : stats[s].count >= 1

\* C20: every key of the result has count >= 1, and so has every key of
\* state_stats after each change of the walk.
C20_EveryKeyEntered ==
    returned =>
        /\ EveryKeyCounted(state_stats)
        /\ Parsable(issue.created) =>
               \A k \in 0..NumChanges : EveryKeyCounted(StatsAfter(k))

\* A result with a key for a missing to-status next to status names, after
\* a walk of two changes.
C20_Witness ==
    /\ returned
    /\ NumChanges = 2
    /\ None \in DOMAIN state_stats
    /\ Cardinality(DOMAIN state_stats) = 3

RecordsOf(pr) ==
    {i \in 1..Len(pool.prs_with_metrics) :
        pool.prs_with_metrics[i].number = pr}

\* C21: once the pool has drained, prs_with_metrics holds exactly one record
\* for each pull request whose analysis succeeded and none for one whose
\* analysis raised, every pull request was analysed exactly once whatever
\* happened to the others, and completed is the number of pull requests.
C21_PoolDrained ==
    pool.pc = "drained" =>
        /\ \A pr \in 1..pool.prs :
              /\ pool.runs[pr] = 1
              /\ Cardinality(RecordsOf(pr))
                     = IF pr \in pool.failing THEN 0 ELSE 1
        /\ \A i \in 1..Len(pool.prs_with_metrics) :
              pool.prs_with_metrics[i] \in
                  {Metrics(pr) : pr \in (1..pool.prs) \ pool.failing}
        /\ pool.completed = pool.prs

\* Three pull requests, the first of which failed, collected in an order
\* that is not the order of submission.
C21_Witness ==
    /\ pool.pc = "drained"
    /\ pool.prs = 3
    /\ pool.failing = {1}
    /\ pool.prs_with_metrics = <<Metrics(3), Metrics(2)>>

\* The page of the listing with the given number.
ListedPage(page) == PageOf(closed_prs, page, fetch_args.per_page)

\* The page is empty or its oldest updated_at is before start_date.
LastPageToRequest(page) ==
    \/ ListedPage(page) = <<>>
    \/ \E i \in 1..Len(ListedPage(page)) :
          ListedPage(page)[i].updated_at.day < fetch_args.start_date.day

\* Pages 1, 2, 3, ... are requested in turn, none twice, and none after the
\* first that is empty or has an update older than start_date.
ConsecutivePages ==
    \A i \in 1..Len(fetch.requested) :
        /\ fetch.requested[i].page = i
        /\ i < Len(fetch.requested) => ~LastPageToRequest(i)

\* C22: when every request succeeds, fetch_merged_prs requests consecutive
\* pages up to the first that is empty or older than start_date, and
\* eventually returns.
C22_EventuallyReturns ==
    []ConsecutivePages /\ <>(fetch.pc = "returned")

\* C26: a call whose requests all succeed never raises: the stop test
\* "oldest_updated < start" can always be evaluated.
C26_StopTestEvaluable ==
    EveryRequestSucceeded => fetch.pc \in {"idle", "running", "returned"}

\* The steps of a normal run, in the order main takes them.
StepsInOrder(phases) ==
    <<Step("load"), Step("cleanup")>>
        \o [i \in 1..phases |-> PhaseStep(i)]
        \o <<Step("comparison"), Step("upload")>>

IsPrefix(s, t) == Len(s) <= Len(t) /\ \A i \in 1..Len(s) : s[i] = t[i]

Logged(r, s) == \E i \in 1..Len(r.log) : r.log[i] = s

\* C23: in normal mode the steps are a prefix of load, cleanup, the phases
\* in configuration order, comparison, upload; a failing phase is the last
\* step and main returns 1; the comparison follows only phases that all
\* succeeded; an upload needs a successful comparison, a found file and no
\* --no-upload.
C23_StepsInOrder ==
    (jira_report # Idle /\ ~jira_report.flags["combine_only"]) =>
        /\ IsPrefix(jira_report.log, StepsInOrder(jira_report.phases))
        /\ \A i \in 1..jira_report.phases :
              (Logged(jira_report, PhaseStep(i)) /\ i \in jira_report.failing)
                  => /\ jira_report.pc = "return 1"
                     /\ jira_report.log[Len(jira_report.log)] = PhaseStep(i)
        /\ Logged(jira_report, Step("comparison")) =>
              /\ jira_report.failing = {}
              /\ \A i \in 1..jira_report.phases :
                    Logged(jira_report, PhaseStep(i))
        /\ Logged(jira_report, Step("upload")) =>
              /\ jira_report.flags["comparison_ok"]
              /\ jira_report.flags["found"]
              /\ ~jira_report.flags["no_upload"]
        /\ (jira_report.pc = "return 0" /\ jira_report.flags["found"]
                /\ ~jira_report.flags["no_upload"])
              => Logged(jira_report, Step("upload"))

C23_Witness ==
    /\ jira_report # Idle
    /\ ~jira_report.flags["combine_only"]
    /\ jira_report.phases = 2
    /\ jira_report.failing = {1, 2}
    /\ jira_report.pc = "return 1"
    /\ jira_report.log = <<Step("load"), Step("cleanup"), PhaseStep(1)>>

\* The members whose report failed among the first k, in list order.
RECURSIVE FailedAmong(_, _)
FailedAmong(r, k) ==
    IF k = 0 THEN <<>>
    ELSE IF k \in r.failing THEN Append(FailedAmong(r, k - 1), k)
    ELSE FailedAmong(r, k - 1)

\* C24: the team report comes first; when it fails nothing else is
\* generated and 1 is returned; otherwise every member is attempted in list
\* order, failed_members holds exactly the members that failed, and 0 is
\* returned whatever the members did.
C24_TeamFirstThenEveryMember ==
    members_reports # Idle =>
        /\ members_reports.log # <<>> =>
              /\ members_reports.log[1] = Team
              /\ \A i \in 2..Len(members_reports.log) :
                    members_reports.log[i] = i - 1
        /\ (members_reports.log # <<>> /\ ~members_reports.team_ok) =>
              /\ members_reports.log = <<Team>>
              /\ members_reports.pc = "return 1"
        /\ members_reports.log # <<>> =>
              members_reports.failed_members =
                  FailedAmong(members_reports, Len(members_reports.log) - 1)
        /\ (members_reports.pc \in {"return 0", "return 1"}
                /\ members_reports.members > 0 /\ members_reports.team_ok) =>
              /\ members_reports.pc = "return 0"
              /\ Len(members_reports.log) = members_reports.members + 1

C24_Witness ==
    /\ members_reports # Idle
    /\ members_reports.members = 3
    /\ members_reports.failing = {1, 3}
    /\ members_reports.pc = "return 0"
    /\ members_reports.log = <<Team, 1, 2, 3>>
    /\ members_reports.failed_members = <<1, 3>>

\* C25: for every issue and the same "now" the three copies of
\* calculate_state_durations return the same mapping, the empty one on an
\* unparsable created timestamp and the fallback to "now" on an unparsable
\* resolution date included.
C25_CopiesAgree ==
    returned =>
        /\ calculate_state_durations_cli(issue, clock * SecondsPerDay)
              = state_stats
        /\ calculate_state_durations_get_issues(issue, clock * SecondsPerDay)
              = state_stats
        /\ ~parse_datetime(issue.created).ok => state_stats = EmptyStats

C25_Witness ==
    /\ returned
    /\ issue = Issue(Plain(0), GarbageTs, "To Do", <<>>)
    /\ clock = 2
    /\ state_stats = calculate_state_durations_get_issues(issue, 2 * SecondsPerDay)
    /\ state_stats["To Do"] = Stat(2 * SecondsPerDay, 1)

Returned(m) == m.pc = "done" /\ m.metrics.outcome = "returned"

SubmittedDays(reviews) ==
    {reviews[i].submitted_at.day :
        i \in {j \in 1..Len(reviews) : reviews[j].submitted_at # AbsentTs}}

\* C27: get_pr_detailed_metrics returns, and its time_to_first_review_hours
\* is None when no review carries a submitted_at (no review at all, or
\* reviews that all lack it), else the hours from the creation of the pull
\* request to the earliest submitted_at.
C27_FirstReviewOrNone ==
    pr_metrics.pc = "done" =>
        /\ pr_metrics.metrics.outcome = "returned"
        /\ pr_metrics.metrics.time_to_first_review_hours =
              IF SubmittedDays(pr_metrics.discussion.reviews) = {}
              THEN NoneHours
              ELSE Hours(HoursPerDay
                            * (Min(SubmittedDays(pr_metrics.discussion.reviews))
                                  - pr_metrics.pr.created_at.day))

\* C28: in the record returned every human-only count is at most its
\* all-users counterpart.
C28_HumanCountsBounded ==
    Returned(pr_metrics) =>
        LET m == pr_metrics.metrics
        IN  /\ m.human_reviewers_count <= m.reviewers_count
            /\ m.human_review_comments_count <= m.review_comments_count
            /\ m.human_issue_comments_count <= m.issue_comments_count
            /\ m.human_total_comments_count <= m.total_comments_count
            /\ m.human_substantive_comments_count
                  <= m.substantive_comments_count

C28_Witness ==
    /\ Returned(pr_metrics)
    /\ pr_metrics.metrics.human_reviewers_count = 1
    /\ pr_metrics.metrics.reviewers_count = 2
    /\ pr_metrics.metrics.human_review_comments_count = 1
    /\ pr_metrics.metrics.review_comments_count = 2
    /\ pr_metrics.metrics.human_issue_comments_count = 2
    /\ pr_metrics.metrics.issue_comments_count = 3
    /\ pr_metrics.metrics.human_substantive_comments_count = 4
    /\ pr_metrics.metrics.substantive_comments_count = 7

\* C29: normalising a normalised username changes nothing.
C29_Idempotent ==
    normalized.pc = "twice" => normalized.twice = normalized.once

\* Every quotient of a group's statistics has a non-zero divisor.
DivisorsNonZero(stats) ==
    stats # NoStats =>
        /\ stats.avg_time_to_merge_days.den # 0
        /\ stats.avg_time_to_first_review_hours.den # 0
        /\ stats.avg_changes_requested.den # 0
        /\ stats.avg_commits.den # 0
        /\ stats.avg_reviewers.den # 0
        /\ stats.avg_comments.den # 0

\* C30: for a non-empty list ai_assisted_prs + non_ai_prs = total_prs,
\* claude_prs + cursor_prs - both_tools_prs = ai_assisted_prs, and
\* ai_adoption_rate = ai_assisted_prs / total_prs * 100 lies in [0, 100];
\* for the empty list the four counts are 0; nothing is divided by zero.
C30_Partition ==
    statistics.pc = "done" =>
        LET s == statistics.stats
        IN  IF statistics.prs_with_metrics = <<>>
            THEN s = [total_prs |-> 0, ai_assisted_prs |-> 0,
                      non_ai_prs |-> 0, ai_adoption_rate |-> Zero]
            ELSE /\ s.total_prs = Len(statistics.prs_with_metrics)
                 /\ s.ai_assisted_prs + s.non_ai_prs = s.total_prs
                 /\ s.claude_prs + s.cursor_prs - s.both_tools_prs
                       = s.ai_assisted_prs
                 /\ s.ai_adoption_rate.den # 0
                 /\ s.ai_adoption_rate.num * s.total_prs
                       = s.ai_assisted_prs * 100 * s.ai_adoption_rate.den
                 /\ 0 <= s.ai_adoption_rate.num
                 /\ s.ai_adoption_rate.num <= 100 * s.ai_adoption_rate.den
                 /\ DivisorsNonZero(s.ai_stats)
                 /\ DivisorsNonZero(s.non_ai_stats)
                 /\ s.comparison.merge_time_improvement.den # 0
                 /\ s.comparison.changes_requested_reduction.den # 0

C30_Witness ==
    /\ statistics.pc = "done"
    /\ statistics.stats.total_prs = 3
    /\ statistics.stats.ai_assisted_prs = 2
    /\ statistics.stats.non_ai_prs = 1
    /\ statistics.stats.claude_prs = 2
    /\ statistics.stats.cursor_prs = 1
    /\ statistics.stats.both_tools_prs = 1
    /\ statistics.stats.ai_adoption_rate = Quotient(200, 3)
====
